---- MODULE Spec2Model ----
(***************************************************************************)
(* State-machine model of the C-Bus <-> MQTT gateway:                      *)
(*   cbus/protocol/pciprotocol.py  PCIProtocol (confirmation registry,     *)
(*                                 pending-send table, retry loop,         *)
(*                                 timesync loop, _send)                   *)
(*   cbus/daemon/mqtt_gateway.py   CBusHandler, MqttClient (groupDB)       *)
(*                                                                         *)
(* Scheduling model.  The program runs on one asyncio event loop.  A       *)
(* coroutine runs without interruption until it awaits something that      *)
(* really suspends.  asyncio.Lock.acquire() returns at once when the lock  *)
(* is free, and no coroutine of PCIProtocol awaits while it holds          *)
(* _confirmation_lock, so "async with self._confirmation_lock" never       *)
(* suspends; awaiting a coroutine that does not suspend does not suspend   *)
(* either.  The only suspension points are the asyncio.sleep calls, and    *)
(* every action below is the code between two of them.                     *)
(*                                                                         *)
(* Time.  One tick is one second (= _retry_interval).  Time stamps are     *)
(* kept as ages (now - stamp), saturated where the code can no longer tell *)
(* the difference.  The 0.1 s sleep of _send_packet is shorter than a tick; *)
(* all such sleeps wake in the order they were started (gapQ).             *)
(***************************************************************************)
EXTENDS Integers, Sequences, FiniteSets, TLC

(* ------------------------------------------------------------------ *)
(* Bounds of the model                                                 *)
(* ------------------------------------------------------------------ *)
\* number of _send calls with confirmation made by the environment and timesync
MaxSends == 2
\* number of connection_made events on the one protocol object
MaxConnections == 2
\* number of confirmation packets received from the PCI
MaxConfirmations == 1
\* configured timesync interval in seconds (--timesync, any value > 0)
TimesyncFrequency == 1
\* configured status-resync interval in seconds (--status-resync, any value > 0)
ResyncFrequency == 2
\* number of sweeps the resync loop is followed for
MaxResyncs == 2
\* number of seconds followed one by one while nothing is pending; after them
\* the idle time up to the next timeout of a code passes in one step
MaxTicks == 3

\* the throttler's interval between two tasks (Periodic(period=...)), in ticks
Period == 2
\* the capacity of the throttler's queue (Periodic(max_queue_size=...))
MaxQueueSize == 9
\* number of status sweeps (queue_status_requests calls)
MaxSweeps == 2
\* number of command messages received from the broker
MaxCommands == 1

(* ------------------------------------------------------------------ *)
(* Program constants                                                   *)
(* ------------------------------------------------------------------ *)
\* cbus.common.CONFIRMATION_CODES: the bytes of b'hijklmnopqrstuvwxyzg'
CONFIRMATION_CODES ==
    << 104, 105, 106, 107, 108, 109, 110, 111, 112, 113,
       114, 115, 116, 117, 118, 119, 120, 121, 122, 103 >>
\* self._confirmation_timeout = 30.0
ConfirmationTimeout == 30
\* self._max_retries = 3
MaxRetries == 3
\* self._retry_interval = 1.0
RetryInterval == 1
\* a byte that is no confirmation code (the tests use b'\x05')
UnknownCode == 5

NumCodes == Len(CONFIRMATION_CODES)
CodeSet == { CONFIRMATION_CODES[i] : i \in 1..NumCodes }

\* group addresses of the one lighting application the model follows
GAs == {1, 2}
\* groups that have a label in the project file (publish_all_lights)
LabelledGAs == {1}

\* size of the burst of clock requests InitBurst starts from
BurstSize == NumCodes - 1
\* number of _send calls in pci_reset
ResetCalls == 7
SendIds == 1..(MaxSends + BurstSize + ResetCalls * MaxConnections)
BurstSid(i) == MaxSends + i
\* the packet of call n of the pci_reset task of connection k
ResetSid(k, n) == MaxSends + BurstSize + ResetCalls * (k - 1) + n

Max(a, b) == IF a >= b THEN a ELSE b
Min(a, b) == IF a <= b THEN a ELSE b

VARIABLES
    transport,    \* self._transport: 0 = None, k = transport of the k-th connection
    conns,        \* number of connection_made calls so far
    inUse,        \* self._confirmation_codes_in_use, in dict order: [code, age, sid]
    pending,      \* self._pending_confirmations, in dict order: [code, data, attempts, age]
    nextIdx,      \* self._next_confirmation_index (0-based)
    isClosing,    \* CBusHandler._is_closing
    mqttApi,      \* CBusHandler.mqtt_api is not None
    mqttEntered,  \* MqttClient.__aenter__ has run
    groupDB,      \* MqttClient.groupDB: the published group addresses
    sweeps,       \* number of status sweeps enqueued into the throttler
    gapQ,         \* coroutines inside "await sleep(0.1)" of _send_packet, in wake order
    rl,           \* the _check_pending_confirmations tasks, one per connection_made
    ts,           \* the timesync tasks, one per connection_made
    confQ,        \* tasks created by on_confirmation that have not run yet
    confCount,    \* number of confirmation packets received
    nextSid,      \* number of the next packet passed to _send
    writes,       \* writes[d]: number of transport.write calls with packet d
    confirmed,    \* packets whose pending entry a confirmation has removed
    ticks,        \* number of single seconds that have passed
    rst,          \* the pci_reset tasks, one per connection_made
    wire,         \* wire[t]: the packets the pci_reset tasks wrote to transport t
    calls,        \* the lighting_group_on/off/terminate_ramp calls made, in order
    queue,        \* Periodic.queue: the tasks waiting in the throttler
    running,      \* Periodic.running
    worker,       \* the task running Periodic._work: where it is suspended
    sinceStart,   \* time since the worker last called a task, up to Period
    accepted,     \* the tasks enqueue has put into the queue, in order
    refused,      \* the tasks enqueue has not added
    dispatched,   \* the tasks the worker has called, in order, and what they did
    discarded,    \* the tasks cleanup took from the queue
    cleanupPc,    \* Periodic.cleanup(): "none", "awaiting" self.task, "returned"
    sweepCount,   \* number of queue_status_requests calls
    commandCount, \* number of command messages handled
    parsed,       \* the topics built and parsed, with the result of the parser
    dispatcher,   \* MqttClient._dispatcher_loop: "running" or "crashed"
    msgLog,       \* the messages _dispatcher_loop has taken, with what became of them
    mqttOut,      \* the subscribe and publish calls made on the MQTT client, in order
    handleClockRequests,  \* PCIProtocol._handle_clock_requests
    main,         \* cmqttd._main: where it is, and what it has logged as critical
    cbusIn,       \* the lighting events and level reports received from the PCI,
                  \* each with the client calls its handler made
    timesyncFrequency,  \* PCIProtocol._timesync_frequency
    tsLog,        \* tsLog[k]: what the timesync loop of connection k has done
    resync,       \* the status-resync option and the loop of start_periodic_resync
    proxy         \* cbus-proxy CBusProxy: running, cni_connected, cni_task, clients

vars == << transport, conns, inUse, pending, nextIdx, isClosing, mqttApi,
           mqttEntered, groupDB, sweeps, gapQ, rl, ts, confQ, confCount,
           nextSid, writes, confirmed, ticks, rst, wire, calls,
           queue, running, worker, sinceStart, accepted, refused,
           dispatched, discarded, cleanupPc, sweepCount, commandCount,
           parsed, dispatcher, msgLog, mqttOut, handleClockRequests, main, cbusIn,
           timesyncFrequency, tsLog, resync, proxy >>

\* the variables of the session: registry, pending table, loops, gateway state
sessionVars == << transport, conns, inUse, pending, nextIdx, isClosing, mqttApi,
                  mqttEntered, groupDB, sweeps, gapQ, rl, ts, confQ, confCount,
                  nextSid, writes, confirmed, ticks >>
\* the variables of the reset sequence
resetVars == << rst, wire >>
\* the record of the lighting calls
lightVars == << calls >>

\* the throttler and what the gateway has offered to it
periodicVars == << queue, running, worker, sinceStart, accepted, refused,
                   dispatched, discarded, cleanupPc, sweepCount, commandCount >>

\* the MQTT side of the gateway and the supervisor
gatewayVars == << parsed, dispatcher, msgLog, mqttOut, handleClockRequests, main, cbusIn >>

\* the options of the session and the record of its background tasks; the proxy
taskVars == << timesyncFrequency, tsLog, resync, proxy >>

\* the variables that the session's sends, retries and confirmations leave alone
ext == << resetVars, lightVars, periodicVars, gatewayVars, taskVars >>
otherThanReset == << lightVars, periodicVars, gatewayVars, taskVars >>
otherThanLight == << resetVars, periodicVars, gatewayVars, taskVars >>
otherThanPeriodic == << sessionVars, resetVars, lightVars, gatewayVars, taskVars >>
otherThanGateway == << resetVars, lightVars, periodicVars, taskVars >>

(* ------------------------------------------------------------------ *)
(* Dicts kept as sequences of records with a "code" key                *)
(* ------------------------------------------------------------------ *)
HasCode(d, c) == \E i \in 1..Len(d) : d[i].code = c
Entry(d, c) == d[CHOOSE i \in 1..Len(d) : d[i].code = c]
DelCode(d, c) == SelectSeq(d, LAMBDA e : e.code # c)
\* d[key] = e: an existing key keeps its place, a new key goes last
PutCode(d, e) ==
    IF HasCode(d, e.code)
    THEN [i \in 1..Len(d) |-> IF d[i].code = e.code THEN e ELSE d[i]]
    ELSE Append(d, e)

(* ------------------------------------------------------------------ *)
(* PCIProtocol._release_confirmation_code                               *)
(* ------------------------------------------------------------------ *)
\* a release that forgets to free the code
ReleaseKeepsCode(iu, pd, c) ==
    [iu |-> iu, pd |-> DelCode(pd, c)]

ReleaseConfirmationCode(iu, pd, c) ==
    IF HasCode(iu, c)
    THEN [iu |-> DelCode(iu, c), pd |-> DelCode(pd, c)]
    ELSE [iu |-> iu, pd |-> pd]

(* ------------------------------------------------------------------ *)
(* PCIProtocol._check_and_release_timed_out_codes                       *)
(* ------------------------------------------------------------------ *)
\* a registry without timeout
NeverTimedOut(e) == FALSE

TimedOut(e) == e.age > ConfirmationTimeout

\* sorted(items, key=timestamp): oldest first, equal stamps in dict order
RECURSIVE CodesByAge(_)
CodesByAge(iu) ==
    IF iu = << >> THEN << >>
    ELSE LET i == CHOOSE j \in 1..Len(iu) :
                    /\ \A k \in 1..Len(iu) : iu[k].age <= iu[j].age
                    /\ \A k \in 1..(j-1) : iu[k].age < iu[j].age
             rest == [k \in 1..(Len(iu)-1) |-> IF k < i THEN iu[k] ELSE iu[k+1]]
         IN << iu[i] >> \o CodesByAge(rest)

HighUsage(iu) == Len(iu) * 10 > NumCodes * 9

ForceReleased(iu) ==
    IF HighUsage(iu)
    THEN LET byAge == CodesByAge(iu)
             n == Max(1, Len(byAge) \div 4)
         IN { byAge[i].code : i \in 1..n }
    ELSE {}

\* a reap that releases codes only when too many are in use
ReapOnlyUnderPressure(iu, pd) ==
    LET forced == ForceReleased(iu)
    IN [iu |-> SelectSeq(iu, LAMBDA e : e.code \notin forced),
        pd |-> SelectSeq(pd, LAMBDA e : e.code \notin forced)]

CheckAndReleaseTimedOutCodes(iu, pd) ==
    LET timedOut == { iu[i].code : i \in { j \in 1..Len(iu) : TimedOut(iu[j]) } }
        iu1 == SelectSeq(iu, LAMBDA e : e.code \notin timedOut)
        pd1 == SelectSeq(pd, LAMBDA e : e.code \notin timedOut)
        forced == ForceReleased(iu1)
    IN [iu |-> SelectSeq(iu1, LAMBDA e : e.code \notin forced),
        pd |-> SelectSeq(pd1, LAMBDA e : e.code \notin forced)]

(* ------------------------------------------------------------------ *)
(* PCIProtocol._get_confirmation_code                                   *)
(* ------------------------------------------------------------------ *)
CodeAt(idx) == CONFIRMATION_CODES[(idx % NumCodes) + 1]

\* offsets k of the "for _ in range(len(CONFIRMATION_CODES))" loop whose code is free
FreeOffsets(iu, idx, excluded) ==
    { k \in 0..(NumCodes-1) :
        /\ ~HasCode(iu, CodeAt(idx + k))
        /\ CodeAt(idx + k) \notin excluded }

\* a search that takes the free code farthest from the cursor
LastOffset(offsets) == CHOOSE k \in offsets : \A m \in offsets : k >= m

FirstOffset(offsets) == CHOOSE k \in offsets : \A m \in offsets : k <= m

Allocate(iu, pd, idx, k, sid) ==
    [iu |-> Append(iu, [code |-> CodeAt(idx + k), age |-> 0, sid |-> sid]),
     pd |-> pd,
     idx |-> (idx + k + 1) % NumCodes,
     code |-> CodeAt(idx + k)]

\* second "async with" block: all codes are in use, release the oldest one
ReleaseOldestAndAllocate(iu, pd, idx, sid) ==
    IF iu # << >>
    THEN LET oldest == CodesByAge(iu)[1].code
             iu1 == DelCode(iu, oldest)
             pd1 == DelCode(pd, oldest)
             free == FreeOffsets(iu1, idx, {oldest})
         IN IF free # {}
            THEN Allocate(iu1, pd1, idx, FirstOffset(free), sid)
            ELSE [iu |-> Append(iu1, [code |-> oldest, age |-> 0, sid |-> sid]),
                  pd |-> pd1,
                  idx |-> idx,
                  code |-> oldest]
    ELSE [iu |-> Append(iu, [code |-> CONFIRMATION_CODES[1], age |-> 0, sid |-> sid]),
          pd |-> pd,
          idx |-> idx,
          code |-> CONFIRMATION_CODES[1]]

GetConfirmationCode(iu, pd, idx, sid) ==
    LET r == CheckAndReleaseTimedOutCodes(iu, pd)
        free == FreeOffsets(r.iu, idx, {})
    IN IF free # {}
       THEN Allocate(r.iu, r.pd, idx, FirstOffset(free), sid)
       ELSE ReleaseOldestAndAllocate(r.iu, r.pd, idx, sid)

(* ------------------------------------------------------------------ *)
(* Initial state: PCIProtocol.__init__, CBusHandler.__init__,           *)
(* MqttClient.__init__                                                  *)
(* ------------------------------------------------------------------ *)
Loops == 1..MaxConnections
NoLoop == [pc |-> "none", rem |-> 0, toRetry |-> << >>, iterAge |-> 0]
NoTimesync == [pc |-> "none", rem |-> 0]
\* what a timesync loop that was never started has done: the parity of its
\* clock broadcasts written and of its failed iterations, whether it was
\* cancelled, and at which await
NoTimesyncLog == [emit |-> 0, fails |-> 0, cancelled |-> FALSE, at |-> "none"]
\* the resync loop before start_periodic_resync is called: the option, where
\* the loop stands, the sweeps it has enqueued, the parity of its failed
\* iterations, whether it was cancelled, and at which await
NoResync(frequency) ==
    [frequency |-> frequency, pc |-> "none", rem |-> 0, runs |-> 0, fails |-> 0,
     cancelled |-> FALSE, at |-> "none"]
NoReset == [pc |-> "none", step |-> 0]
\* CBusProxy.__init__: not running, no CNI connection (link 0), no reader
\* task, no clients; nothing received from the CNI
NewProxy ==
    [running |-> FALSE, cniConnected |-> FALSE, link |-> 0, cniTask |-> "none",
     clients |-> {}, received |-> << >>]

\* a pci_reset task that connection_made created has not run yet; the event
\* loop runs it before any timer fires and before it reads from the PCI
ResetReady == \E k \in Loops : rst[k].pc = "ready"

\* no pci_reset task has been created and nothing has been written
InitExt ==
    /\ rst = [k \in Loops |-> NoReset]
    /\ wire = [t \in Loops |-> << >>]
    /\ calls = << >>
    /\ queue = << >>
    /\ running = TRUE
    /\ worker = [pc |-> "new", rem |-> 0]
    /\ sinceStart = Period
    /\ accepted = << >>
    /\ refused = << >>
    /\ dispatched = << >>
    /\ discarded = {}
    /\ cleanupPc = "none"
    /\ sweepCount = 0
    /\ commandCount = 0
    /\ parsed = << >>
    /\ dispatcher = "running"
    /\ msgLog = << >>
    /\ mqttOut = << >>
    /\ main = [pc |-> "start", critical |-> 0]
    /\ cbusIn = << >>
    /\ tsLog = [k \in Loops |-> NoTimesyncLog]
    /\ proxy = NewProxy

\* handle_clock_requests: bool = True
DefaultOptions ==
    /\ handleClockRequests = TRUE
    /\ timesyncFrequency = TimesyncFrequency
    /\ resync = NoResync(ResyncFrequency)

InitSession ==
    /\ transport = 0
    /\ conns = 0
    /\ inUse = << >>
    /\ pending = << >>
    /\ nextIdx = 0
    /\ isClosing = FALSE
    /\ mqttApi = FALSE
    /\ mqttEntered = FALSE
    /\ groupDB = {}
    /\ sweeps = 0
    /\ gapQ = << >>
    /\ rl = [k \in Loops |-> NoLoop]
    /\ ts = [k \in Loops |-> NoTimesync]
    /\ confQ = << >>
    /\ confCount = 0
    /\ nextSid = 1
    /\ writes = [d \in SendIds |-> 0]
    /\ confirmed = {}
    /\ ticks = 0

Init == InitSession /\ InitExt /\ DefaultOptions

(* ------------------------------------------------------------------ *)
(* PCIProtocol._cleanup_state, connection_made, connection_lost and     *)
(* their CBusHandler overrides                                          *)
(* ------------------------------------------------------------------ *)
CleanupState ==
    /\ inUse' = << >>
    /\ pending' = << >>
    /\ nextIdx' = 0

\* CBusHandler.connection_made: PCIProtocol.connection_made, then the status sweep
ConnectionMadeSession ==
    /\ transport = 0
    /\ conns < MaxConnections
    /\ conns' = conns + 1
    /\ transport' = conns + 1
    /\ CleanupState
    /\ ts' = IF timesyncFrequency # 0
             THEN [ts EXCEPT ![conns + 1] = [pc |-> "sleep", rem |-> 0]]
             ELSE ts
    /\ rl' = [rl EXCEPT ![conns + 1] =
                 [pc |-> "sleep", rem |-> RetryInterval, toRetry |-> << >>, iterAge |-> 0]]
    /\ sweeps' = IF mqttApi THEN sweeps + 1 ELSE sweeps
    /\ UNCHANGED << isClosing, mqttApi, mqttEntered, groupDB, gapQ, confQ,
                    confCount, nextSid, writes, confirmed, ticks >>

\* Spec, SpecLive and SpecBurst follow the packets sent for the callers of the
\* session and for its timesync loop; the seven sends of the pci_reset task go
\* through the same _send and are followed in SpecReset.
ConnectionMade ==
    /\ ConnectionMadeSession
    /\ UNCHANGED ext

\* CBusHandler.connection_lost: clear groupDB, cleanup(), PCIProtocol.connection_lost
ConnectionLost ==
    /\ transport # 0
    /\ groupDB' = IF mqttApi THEN {} ELSE groupDB
    /\ isClosing' = TRUE
    /\ mqttApi' = IF isClosing THEN mqttApi ELSE FALSE
    /\ transport' = 0
    /\ CleanupState
    /\ UNCHANGED << conns, mqttEntered, sweeps, gapQ, rl, ts, confQ, confCount,
                    nextSid, writes, confirmed, ticks, ext >>

(* ------------------------------------------------------------------ *)
(* MqttClient.__aenter__ and the relay of C-Bus lighting events         *)
(* ------------------------------------------------------------------ *)
\* check_published + publish_light: the group is announced and recorded
CheckPublished(db, ga) == db \cup {ga}

\* publish_all_lights: publish_light for every labelled group
PublishAllLights(db) == db \cup LabelledGAs

MqttEnter ==
    /\ ~mqttEntered
    /\ conns >= 1
    /\ mqttEntered' = TRUE
    /\ mqttApi' = TRUE
    /\ groupDB' = PublishAllLights(groupDB)
    /\ sweeps' = sweeps + 1
    /\ UNCHANGED << transport, conns, inUse, pending, nextIdx, isClosing, gapQ,
                    rl, ts, confQ, confCount, nextSid, writes, confirmed, ticks, ext >>

\* CBusHandler.on_lighting_group_on/off/ramp for a packet received from the PCI
Relays == mqttApi /\ ~isClosing

OnLightingEvent(ga) ==
    /\ transport # 0
    /\ groupDB' = IF Relays THEN CheckPublished(groupDB, ga) ELSE groupDB
    /\ UNCHANGED << transport, conns, inUse, pending, nextIdx, isClosing, mqttApi,
                    mqttEntered, sweeps, gapQ, rl, ts, confQ, confCount, nextSid,
                    writes, confirmed, ticks, ext >>

(* ------------------------------------------------------------------ *)
(* PCIProtocol._send up to its first suspension:                        *)
(* _prepare_packet (_get_confirmation_code), then _send_packet's check  *)
(* of the transport and the start of its sleep(0.1)                     *)
(* ------------------------------------------------------------------ *)
GapEntry(kind, sid, code, ga, loop) ==
    [kind |-> kind, sid |-> sid, code |-> code, tr |-> transport, ga |-> ga,
     loop |-> loop, ticked |-> FALSE]

\* the transport is None: _send_packet raises IOError before it sleeps
TransportDown == transport = 0

StartSend(kind, ga, loop) ==
    LET g == GetConfirmationCode(inUse, pending, nextIdx, nextSid)
    IN /\ inUse' = g.iu
       /\ pending' = g.pd
       /\ nextIdx' = g.idx
       /\ nextSid' = nextSid + 1
       /\ gapQ' = IF TransportDown
                  THEN gapQ
                  ELSE Append(gapQ, GapEntry(kind, nextSid, g.code, ga, loop))

\* MqttClient.switchLight run by the throttler for a command message
SwitchLight(ga) ==
    /\ mqttEntered
    /\ nextSid <= MaxSends
    /\ StartSend("switchLight", ga, 0)
    /\ UNCHANGED << transport, conns, isClosing, mqttApi, mqttEntered, groupDB,
                    sweeps, rl, ts, confQ, confCount, writes, confirmed, ticks, ext >>

\* PCIProtocol.request_status run by the throttler for a queued status request
RequestStatus ==
    /\ sweeps > 0
    /\ nextSid <= MaxSends
    /\ StartSend("send", 0, 0)
    /\ UNCHANGED << transport, conns, isClosing, mqttApi, mqttEntered, groupDB,
                    sweeps, rl, ts, confQ, confCount, writes, confirmed, ticks, ext >>

\* CBusHandler.on_clock_request: create_task(self.clock_datetime())
OnClockRequest ==
    /\ transport # 0
    /\ ~ResetReady
    /\ ~isClosing
    /\ nextSid <= MaxSends
    /\ StartSend("send", 0, 0)
    /\ UNCHANGED << transport, conns, isClosing, mqttApi, mqttEntered, groupDB,
                    sweeps, rl, ts, confQ, confCount, writes, confirmed, ticks, ext >>

\* PCIProtocol.timesync: one pass of the loop up to its first suspension; the
\* tasks of connection_made start in the order it created them, pci_reset first
Timesync(k) ==
    /\ ts[k].pc = "sleep"
    /\ ts[k].rem = 0
    /\ ~ResetReady
    /\ nextSid <= MaxSends
    /\ StartSend("timesync", 0, k)
    /\ ts' = [ts EXCEPT ![k] = IF TransportDown
                               THEN [pc |-> "sleep", rem |-> 1]
                               ELSE [pc |-> "gap", rem |-> 0]]
    /\ UNCHANGED << transport, conns, isClosing, mqttApi, mqttEntered, groupDB,
                    sweeps, rl, confQ, confCount, writes, confirmed, ticks, ext >>

(* ------------------------------------------------------------------ *)
(* PCIProtocol._check_pending_confirmations                             *)
(* ------------------------------------------------------------------ *)
Due(e) == e.age >= RetryInterval

\* to_retry: the (code, packet_data) pairs selected under the lock
ToRetry(pd) ==
    LET sel == SelectSeq(pd, LAMBDA e : Due(e) /\ e.attempts < MaxRetries)
    IN [i \in 1..Len(sel) |-> [code |-> sel[i].code, data |-> sel[i].data]]

\* to_abandon: the codes that used up their attempts
ToAbandon(pd) ==
    LET sel == SelectSeq(pd, LAMBDA e : Due(e) /\ ~(e.attempts < MaxRetries))
    IN [i \in 1..Len(sel) |-> sel[i].code]

\* "for code in to_abandon": delete the pending entry, release the code
RECURSIVE AbandonAll(_, _, _)
AbandonAll(iu, pd, cs) ==
    IF cs = << >> THEN [iu |-> iu, pd |-> pd]
    ELSE LET r == ReleaseConfirmationCode(iu, DelCode(pd, cs[1]), cs[1])
         IN AbandonAll(r.iu, r.pd, Tail(cs))

\* "if code in self._pending_confirmations": count the attempt on whatever entry
\* the code has now, and store the packet selected at the start of the pass
CountAttempt(pd, item, iterAge) ==
    IF HasCode(pd, item.code)
    THEN PutCode(pd, [code |-> item.code, data |-> item.data,
                      attempts |-> Entry(pd, item.code).attempts + 1,
                      age |-> iterAge])
    ELSE pd

\* the body of "for code, packet_data in to_retry" up to the sleep(0.1) of
\* _send_packet, or up to the IOError that sends the loop to "except Exception"
RetryItem(k, pd, items, iterAge) ==
    /\ pending' = CountAttempt(pd, items[1], iterAge)
    /\ IF TransportDown
       THEN /\ rl' = [rl EXCEPT ![k] = [pc |-> "sleep", rem |-> 1 + RetryInterval,
                                        toRetry |-> << >>, iterAge |-> 0]]
            /\ gapQ' = gapQ
       ELSE /\ rl' = [rl EXCEPT ![k] = [pc |-> "gap", rem |-> 0,
                                        toRetry |-> items, iterAge |-> iterAge]]
            /\ gapQ' = Append(gapQ, GapEntry("retry", items[1].data, items[1].code, 0, k))

RetrySleep(k) ==
    rl' = [rl EXCEPT ![k] = [pc |-> "sleep", rem |-> RetryInterval,
                             toRetry |-> << >>, iterAge |-> 0]]

\* one pass of the loop after sleep(self._retry_interval) has returned
RetryPass(k) ==
    /\ rl[k].pc = "sleep"
    /\ rl[k].rem = 0
    /\ LET r == CheckAndReleaseTimedOutCodes(inUse, pending)
           a == AbandonAll(r.iu, r.pd, ToAbandon(r.pd))
           items == ToRetry(r.pd)
       IN /\ inUse' = a.iu
          /\ IF items = << >>
             THEN /\ pending' = a.pd
                  /\ RetrySleep(k)
                  /\ gapQ' = gapQ
             ELSE RetryItem(k, a.pd, items, 0)
    /\ UNCHANGED << transport, conns, nextIdx, isClosing, mqttApi, mqttEntered,
                    groupDB, sweeps, ts, confQ, confCount, nextSid, writes,
                    confirmed, ticks, ext >>

(* ------------------------------------------------------------------ *)
(* The end of a sleep(0.1): transport.write and what follows it         *)
(* ------------------------------------------------------------------ *)
\* _send after _send_packet: self._pending_confirmations[code] = (data, 1, now)
InsertPending(pd, e) ==
    PutCode(pd, [code |-> e.code, data |-> e.sid, attempts |-> 1, age |-> 0])

\* a resumption that writes nothing
NotWritten(e) == writes

\* transport.write(prepared_data)
Written(e) == [writes EXCEPT ![e.sid] = @ + 1]

\* _send resumes: write, insert the pending entry, return to the caller
SendResume ==
    /\ gapQ # << >>
    /\ ~ResetReady
    /\ gapQ[1].kind \in {"send", "switchLight", "timesync"}
    /\ LET e == gapQ[1]
       IN /\ writes' = Written(e)
          /\ pending' = InsertPending(pending, e)
          /\ gapQ' = Tail(gapQ)
          /\ groupDB' = IF e.kind = "switchLight"
                        THEN CheckPublished(groupDB, e.ga)
                        ELSE groupDB
          /\ ts' = IF e.kind = "timesync"
                   THEN [ts EXCEPT ![e.loop] = [pc |-> "sleep", rem |-> timesyncFrequency]]
                   ELSE ts
    /\ UNCHANGED << transport, conns, inUse, nextIdx, isClosing, mqttApi,
                    mqttEntered, sweeps, rl, confQ, confCount, nextSid, confirmed, ticks, ext >>

\* the retry loop resumes: write, then go on with the next selected packet
RetryResume ==
    /\ gapQ # << >>
    /\ ~ResetReady
    /\ gapQ[1].kind = "retry"
    /\ LET e == gapQ[1]
           k == e.loop
           rest == Tail(rl[k].toRetry)
       IN /\ writes' = Written(e)
          /\ IF rest = << >>
             THEN /\ RetrySleep(k)
                  /\ pending' = pending
                  /\ gapQ' = Tail(gapQ)
             ELSE /\ pending' = CountAttempt(pending, rest[1], rl[k].iterAge)
                  /\ IF TransportDown
                     THEN /\ rl' = [rl EXCEPT ![k] =
                                       [pc |-> "sleep", rem |-> 1 + RetryInterval,
                                        toRetry |-> << >>, iterAge |-> 0]]
                          /\ gapQ' = Tail(gapQ)
                     ELSE /\ rl' = [rl EXCEPT ![k].toRetry = rest]
                          /\ gapQ' = Append(Tail(gapQ),
                                            GapEntry("retry", rest[1].data, rest[1].code, 0, k))
    /\ UNCHANGED << transport, conns, inUse, nextIdx, isClosing, mqttApi,
                    mqttEntered, groupDB, sweeps, ts, confQ, confCount, nextSid,
                    confirmed, ticks, ext >>

(* ------------------------------------------------------------------ *)
(* PCIProtocol.pci_reset and _prepare_packet                            *)
(* ------------------------------------------------------------------ *)
\* no confirmation code (conf_code = None)
NoCode == 0

ResetPacket == [cls |-> "ResetPacket", parameter |-> 0, value |-> 0]
DeviceManagementPacket(p, v) ==
    [cls |-> "DeviceManagementPacket", parameter |-> p, value |-> v]

\* the classes that _prepare_packet finds to be SpecialClientPacket: pci_reset
\* relies on it for ResetPacket and passes basic_mode=True itself for
\* DeviceManagementPacket
SpecialClientPackets == {"ResetPacket"}

\* the _send calls of pci_reset in program order, with the arguments of each
\* (confirmation keeps its default); 0x21 = 33, 0x22 = 34, 0x42 = 66, 0x30 = 48,
\* 0xFF = 255, 0x0E = 14, 0x79 = 121
PciResetCalls ==
    << [cmd |-> ResetPacket, confirmation |-> TRUE, basic_mode |-> FALSE],
       [cmd |-> ResetPacket, confirmation |-> TRUE, basic_mode |-> FALSE],
       [cmd |-> ResetPacket, confirmation |-> TRUE, basic_mode |-> FALSE],
       [cmd |-> DeviceManagementPacket(33, 255), confirmation |-> TRUE, basic_mode |-> TRUE],
       [cmd |-> DeviceManagementPacket(34, 255), confirmation |-> TRUE, basic_mode |-> TRUE],
       [cmd |-> DeviceManagementPacket(66, 14), confirmation |-> TRUE, basic_mode |-> TRUE],
       [cmd |-> DeviceManagementPacket(48, 121), confirmation |-> TRUE, basic_mode |-> TRUE] >>

\* _prepare_packet: the mode and the confirmation the packet is encoded with
PreparePacket(call) ==
    LET special == call.cmd.cls \in SpecialClientPackets
    IN [cmd |-> call.cmd,
        basic_mode |-> IF special THEN TRUE ELSE call.basic_mode,
        confirmation |-> IF special THEN FALSE ELSE call.confirmation]

\* cmd_bytes: the leading backslash unless basic mode, the packet, the code if any
PreparedData(call, code) ==
    LET p == PreparePacket(call)
    IN [backslash |-> ~p.basic_mode, cls |-> p.cmd.cls, parameter |-> p.cmd.parameter,
        value |-> p.cmd.value, code |-> code]

\* call n of the pci_reset task k: _send up to the sleep(0.1) of _send_packet,
\* or up to the IOError that ends the task
ResetCall(k, n, iu, pd, idx, q) ==
    LET p == PreparePacket(PciResetCalls[n])
        g == IF p.confirmation
             THEN GetConfirmationCode(iu, pd, idx, ResetSid(k, n))
             ELSE [iu |-> iu, pd |-> pd, idx |-> idx, code |-> NoCode]
    IN /\ inUse' = g.iu
       /\ pending' = g.pd
       /\ nextIdx' = g.idx
       /\ IF TransportDown
          THEN /\ rst' = [rst EXCEPT ![k] = [pc |-> "failed", step |-> n]]
               /\ gapQ' = q
          ELSE /\ rst' = [rst EXCEPT ![k] = [pc |-> "gap", step |-> n]]
               /\ gapQ' = Append(q, GapEntry("pci_reset", ResetSid(k, n), g.code, 0, k))

\* CBusHandler.connection_made with the task that create_task(self.pci_reset()) makes
ConnectionMadeReset ==
    /\ ConnectionMadeSession
    /\ rst' = [rst EXCEPT ![conns + 1] = [pc |-> "ready", step |-> 1]]
    /\ UNCHANGED << wire, otherThanReset >>

\* the pci_reset task starts: the first ResetPacket
PciReset(k) ==
    /\ rst[k].pc = "ready"
    /\ ResetCall(k, 1, inUse, pending, nextIdx, gapQ)
    /\ UNCHANGED << transport, conns, isClosing, mqttApi, mqttEntered, groupDB,
                    sweeps, rl, ts, confQ, confCount, nextSid, writes, confirmed, ticks,
                    wire, otherThanReset >>

\* a _send of pci_reset resumes: write, insert the pending entry if the packet
\* has a code, then the next call of pci_reset up to its sleep
ResetResume ==
    /\ gapQ # << >>
    /\ ~ResetReady
    /\ gapQ[1].kind = "pci_reset"
    /\ LET e == gapQ[1]
           k == e.loop
           n == rst[k].step
           pd == IF e.code # NoCode THEN InsertPending(pending, e) ELSE pending
       IN /\ wire' = [wire EXCEPT ![e.tr] = Append(@, PreparedData(PciResetCalls[n], e.code))]
          /\ writes' = Written(e)
          /\ IF n < ResetCalls
             THEN ResetCall(k, n + 1, inUse, pd, nextIdx, Tail(gapQ))
             ELSE /\ rst' = [rst EXCEPT ![k] = [pc |-> "done", step |-> n]]
                  /\ gapQ' = Tail(gapQ)
                  /\ pending' = pd
                  /\ UNCHANGED << inUse, nextIdx >>
    /\ UNCHANGED << transport, conns, isClosing, mqttApi, mqttEntered, groupDB,
                    sweeps, rl, ts, confQ, confCount, nextSid, confirmed, ticks,
                    otherThanReset >>

(* ------------------------------------------------------------------ *)
(* PCIProtocol.lighting_group_on, lighting_group_off and                *)
(* lighting_group_terminate_ramp                                        *)
(* ------------------------------------------------------------------ *)
\* "maximum 9 group addresses per packet"
MaxGroupsPerPacket == 9
\* the longest group_addr list passed to a call
MaxGroupCount == 10

LightingOps == {"LightingOnSAL", "LightingOffSAL", "LightingTerminateRampSAL"}

\* the group_addr arguments: n addresses, ascending or descending
Ascending(n) == [i \in 1..n |-> i]
Descending(n) == [i \in 1..n |-> n + 1 - i]
GroupAddrInputs ==
    { Ascending(n) : n \in 0..MaxGroupCount } \cup { Descending(n) : n \in 0..MaxGroupCount }

\* a call that lets any number of groups through
NeverTooMany(groupAddr) == FALSE

\* group_addr_count > 9
TooManyGroups(groupAddr) == Len(groupAddr) > MaxGroupsPerPacket

\* PointToMultipointPacket(sals=[<op>SAL(ga, application_addr) for ga in group_addr])
PointToMultipointPacket(op, groupAddr) ==
    [i \in 1..Len(groupAddr) |-> [sal |-> op, group_address |-> groupAddr[i]]]

\* one call: ValueError before anything else happens, or _send up to the
\* sleep(0.1) of _send_packet or up to its IOError
LightingGroup(op, groupAddr) ==
    /\ Len(calls) < MaxSends
    /\ ~ResetReady
    /\ IF TooManyGroups(groupAddr)
       THEN /\ calls' = Append(calls, [op |-> op, group_addr |-> groupAddr, sid |-> 0,
                                       result |-> "ValueError", written |-> << >>])
            /\ UNCHANGED << inUse, pending, nextIdx, nextSid, gapQ >>
       ELSE /\ StartSend("lighting", 0, 0)
            /\ calls' = Append(calls, [op |-> op, group_addr |-> groupAddr, sid |-> nextSid,
                                       result |-> IF TransportDown THEN "IOError" ELSE "sleep",
                                       written |-> << >>])
    /\ UNCHANGED << transport, conns, isClosing, mqttApi, mqttEntered, groupDB,
                    sweeps, rl, ts, confQ, confCount, writes, confirmed, ticks,
                    otherThanLight >>

\* the _send of a lighting call resumes: write, pending entry, return the code
LightingResume ==
    /\ gapQ # << >>
    /\ gapQ[1].kind = "lighting"
    /\ LET e == gapQ[1]
           i == CHOOSE j \in 1..Len(calls) : calls[j].sid = e.sid
           c == calls[i]
       IN /\ writes' = Written(e)
          /\ pending' = InsertPending(pending, e)
          /\ gapQ' = Tail(gapQ)
          /\ calls' = [calls EXCEPT ![i] =
                          [c EXCEPT !.result = "returned",
                                    !.written = Append(@, PointToMultipointPacket(c.op, c.group_addr))]]
    /\ UNCHANGED << transport, conns, inUse, nextIdx, isClosing, mqttApi, mqttEntered,
                    groupDB, sweeps, rl, ts, confQ, confCount, nextSid, confirmed, ticks,
                    otherThanLight >>

(* ------------------------------------------------------------------ *)
(* PCIProtocol.on_confirmation and the two tasks it creates             *)
(* ------------------------------------------------------------------ *)
\* the codes of the confirmation packets the PCI is taken to send
ConfirmationInputs ==
    { CodeAt(0), CodeAt(1), UnknownCode }

OnConfirmation(code, success) ==
    /\ transport # 0
    /\ confCount < MaxConfirmations
    /\ confCount' = confCount + 1
    /\ confQ' = Append(confQ, [code |-> code])
    /\ UNCHANGED << transport, conns, inUse, pending, nextIdx, isClosing, mqttApi,
                    mqttEntered, groupDB, sweeps, gapQ, rl, ts, nextSid, writes,
                    confirmed, ticks, ext >>

\* _remove_from_pending_confirmations
RemoveFromPendingConfirmations(pd, c) == DelCode(pd, c)

\* the release task is created only for a code of the alphabet
ReleaseQueued(c) == c \in CodeSet

\* both tasks run back to back, in the order on_confirmation created them
ConfirmationTasks ==
    /\ confQ # << >>
    /\ LET c == confQ[1].code
           pd1 == RemoveFromPendingConfirmations(pending, c)
           r == IF ReleaseQueued(c)
                THEN ReleaseConfirmationCode(inUse, pd1, c)
                ELSE [iu |-> inUse, pd |-> pd1]
       IN /\ inUse' = r.iu
          /\ pending' = r.pd
          /\ confirmed' = IF HasCode(pending, c)
                          THEN confirmed \cup { Entry(pending, c).data }
                          ELSE confirmed
    /\ confQ' = Tail(confQ)
    /\ UNCHANGED << transport, conns, nextIdx, isClosing, mqttApi, mqttEntered,
                    groupDB, sweeps, gapQ, rl, ts, confCount, nextSid, writes, ticks, ext >>

(* ------------------------------------------------------------------ *)
(* The passage of time                                                  *)
(* ------------------------------------------------------------------ *)
\* a timer that is due fires before the clock moves on
TimerDue ==
    \/ \E k \in Loops : rl[k].pc = "sleep" /\ rl[k].rem = 0
    \/ \E k \in Loops : ts[k].pc = "sleep" /\ ts[k].rem = 0 /\ nextSid <= MaxSends
    \/ \E i \in 1..Len(gapQ) : gapQ[i].ticked
    \/ confQ # << >>
    \/ ResetReady

\* the passes of the retry loop find nothing to retry, abandon or release
\* before the oldest code in use times out
Idle ==
    /\ pending = << >>
    /\ gapQ = << >>
    /\ ~HighUsage(inUse)
    /\ inUse # << >> => ~TimedOut(inUse[1])

Elapse(d) ==
    /\ inUse' = [i \in 1..Len(inUse) |->
                    [inUse[i] EXCEPT !.age = Min(@ + d, ConfirmationTimeout + 1)]]
    /\ pending' = [i \in 1..Len(pending) |->
                    [pending[i] EXCEPT !.age = Min(@ + d, RetryInterval)]]
    /\ rl' = [k \in Loops |->
                 [rl[k] EXCEPT !.rem = Max(@ - d, 0),
                               !.iterAge = IF rl[k].pc = "gap"
                                           THEN Min(@ + d, RetryInterval) ELSE @]]
    /\ ts' = [k \in Loops |-> [ts[k] EXCEPT !.rem = Max(@ - d, 0)]]
    /\ gapQ' = [i \in 1..Len(gapQ) |-> [gapQ[i] EXCEPT !.ticked = TRUE]]
    /\ UNCHANGED << transport, conns, nextIdx, isClosing, mqttApi, mqttEntered,
                    groupDB, sweeps, confQ, confCount, nextSid, writes, confirmed,
                    ext >>

\* one second passes
Tick ==
    /\ ~TimerDue
    /\ ticks < MaxTicks \/ ~Idle
    /\ ticks' = Min(ticks + 1, MaxTicks)
    /\ Elapse(1)

\* the seconds pass in which the retry loop has nothing to do, up to the one in
\* which the oldest code in use times out
IdleTick ==
    /\ ~TimerDue
    /\ ticks = MaxTicks
    /\ Idle
    /\ inUse # << >>
    /\ ticks' = ticks
    /\ Elapse(ConfirmationTimeout + 1 - inUse[1].age)

(* ------------------------------------------------------------------ *)
(* Periodic (cbus/toolkit/periodic.py): the throttler                   *)
(* ------------------------------------------------------------------ *)
\* a worker that pauses only after a task that returned
PauseOnlyAfterSuccess(raised) == IF raised THEN 0 ELSE Period

\* "finally: await asyncio.sleep(self.period)": after a return and after an exception
PauseAfter(raised) == Period

\* a queue that never reports that it is full
NeverFull(q) == FALSE

\* self.queue.full()
QueueFull(q) == Len(q) >= MaxQueueSize

\* the throttler as enqueue sees and changes it
Throttler ==
    [running |-> running, q |-> queue, acc |-> accepted, ref |-> refused,
     phase |-> cleanupPc]

\* Periodic.enqueue: put_nowait, or the warning and nothing else
Enqueue(st, task) ==
    IF st.running /\ ~QueueFull(st.q)
    THEN [st EXCEPT !.q = Append(@, task), !.acc = Append(@, task)]
    ELSE [st EXCEPT !.ref = Append(@, [task |-> task, phase |-> st.phase])]

RECURSIVE EnqueueAll(_, _)
EnqueueAll(st, tasks) ==
    IF tasks = << >> THEN st
    ELSE EnqueueAll(Enqueue(st, tasks[1]), Tail(tasks))

Offer(tasks) ==
    LET st == EnqueueAll(Throttler, tasks)
    IN /\ queue' = st.q
       /\ accepted' = st.acc
       /\ refused' = st.ref

(* ------------------------------------------------------------------ *)
(* MqttClient.queue_status_requests, _handle_message and switchLight    *)
(* ------------------------------------------------------------------ *)
\* blocks that start every 16 groups and overlap
OverlappingBlocks == [i \in 1..8 |-> 16 * (i - 1)]

\* range(0, 256, 32)
GroupCount == 256
BlockSize == 32
SweepBlocks == [i \in 1..(GroupCount \div BlockSize) |-> BlockSize * (i - 1)]

\* the lambdas of sweep n, in the order of the for loop
SweepTasks(n) ==
    [i \in 1..Len(SweepBlocks) |->
        [id |-> Len(SweepBlocks) * (n - 1) + i, fn |-> "request_status",
         arg |-> [sweep |-> n, block |-> SweepBlocks[i]]]]

QueueStatusRequests ==
    /\ sweepCount < MaxSweeps
    /\ sweepCount' = sweepCount + 1
    /\ Offer(SweepTasks(sweepCount + 1))
    /\ UNCHANGED << running, worker, sinceStart, dispatched, discarded,
                    cleanupPc, commandCount, otherThanPeriodic >>

\* payloads of command messages: state, and brightness and transition if given
States == {"ON", "on", "OFF"}
Brightnesses == {0 - 1, 0, 128, 255, 300}
Transitions == {0 - 5, 0, 4}
Payloads ==
    { [state |-> st] : st \in States }
    \cup { [state |-> st, brightness |-> b] : st \in States, b \in Brightnesses }
    \cup { [state |-> st, transition |-> t] : st \in States, t \in Transitions }
    \cup { [state |-> st, brightness |-> b, transition |-> t] :
              st \in States, b \in Brightnesses, t \in Transitions }

\* str.upper() on the states above
Upper(str) == IF str = "on" THEN "ON" ELSE str

\* payload.get(key, default)
Get(payload, key, default) == IF key \in DOMAIN payload THEN payload[key] ELSE default

\* arguments taken from the payload as they are, without the clamps
UnclampedArgs(ga, payload) ==
    [group_addr |-> ga,
     light_on |-> Upper(payload.state) = "ON",
     brightness |-> Get(payload, "brightness", 255),
     transition |-> Get(payload, "transition", 0),
     payload |-> payload]

\* the arguments _handle_message passes to switchLight
SwitchLightArgs(ga, payload) ==
    [group_addr |-> ga,
     light_on |-> Upper(payload.state) = "ON",
     brightness |-> Max(0, Min(255, Get(payload, "brightness", 255))),
     transition |-> Max(0, Get(payload, "transition", 0)),
     payload |-> payload]

HandleMessage(ga, payload) ==
    /\ commandCount < MaxCommands
    /\ commandCount' = commandCount + 1
    /\ Offer(<< [id |-> Len(SweepBlocks) * MaxSweeps + commandCount + 1,
                 fn |-> "switchLight", arg |-> SwitchLightArgs(ga, payload)] >>)
    /\ UNCHANGED << running, worker, sinceStart, dispatched, discarded,
                    cleanupPc, sweepCount, otherThanPeriodic >>

\* MqttClient.switchLight: the call it makes on the PCI session
SwitchLight_Call(a) ==
    IF a.light_on
    THEN IF a.brightness = 255 /\ a.transition = 0
         THEN [fn |-> "lighting_group_on", group_addr |-> a.group_addr]
         ELSE [fn |-> "lighting_group_ramp", group_addr |-> a.group_addr,
               duration |-> a.transition, level |-> a.brightness]
    ELSE [fn |-> "lighting_group_off", group_addr |-> a.group_addr]

\* what a task of the gateway does when the worker calls it
PciCall(task) ==
    IF task.fn = "request_status"
    THEN [fn |-> "request_status", group_addr |-> task.arg.block]
    ELSE SwitchLight_Call(task.arg)

(* ------------------------------------------------------------------ *)
(* Periodic._work and Periodic.cleanup                                  *)
(* ------------------------------------------------------------------ *)
\* the tasks that may raise an exception when they are called
MayRaise == {1, 2}
Raises(task) == IF task.id \in MayRaise THEN BOOLEAN ELSE {FALSE}

\* action = await self.queue.get(); action(); then the sleep of the finally clause
Dispatch ==
    \E raised \in Raises(Head(queue)) :
        /\ dispatched' = Append(dispatched, [task |-> Head(queue),
                                             call |-> PciCall(Head(queue)),
                                             raised |-> raised])
        /\ queue' = Tail(queue)
        /\ sinceStart' = 0
        /\ worker' = [pc |-> "sleep", rem |-> PauseAfter(raised)]

\* the top of "while self.running": at the start of the task and after each sleep
WorkerLoop ==
    /\ worker.pc = "new" \/ (worker.pc = "sleep" /\ worker.rem = 0)
    /\ IF ~running
       THEN /\ worker' = [pc |-> "done", rem |-> 0]
            /\ UNCHANGED << queue, sinceStart, dispatched >>
       ELSE IF queue # << >>
            THEN Dispatch
            ELSE /\ worker' = [pc |-> "get", rem |-> 0]
                 /\ UNCHANGED << queue, sinceStart, dispatched >>
    /\ UNCHANGED << running, accepted, refused, discarded, cleanupPc, sweepCount,
                    commandCount, otherThanPeriodic >>

\* queue.get() returns to the waiting worker
WorkerGet ==
    /\ worker.pc = "get"
    /\ queue # << >>
    /\ Dispatch
    /\ UNCHANGED << running, accepted, refused, discarded, cleanupPc, sweepCount,
                    commandCount, otherThanPeriodic >>

\* cleanup() up to "await self.task".  A worker cancelled inside queue.get()
\* catches CancelledError, breaks and runs the sleep of the finally clause
\* before it leaves the loop; a worker cancelled in that sleep, or before it
\* has started, ends at once.
CancelWorker ==
    /\ cleanupPc = "none"
    /\ running' = FALSE
    /\ cleanupPc' = "awaiting"
    /\ worker' = IF worker.pc = "get"
                 THEN [pc |-> "lastSleep", rem |-> Period]
                 ELSE [pc |-> "done", rem |-> 0]
    /\ UNCHANGED << queue, sinceStart, accepted, refused, dispatched,
                    discarded, sweepCount, commandCount >>

Cleanup ==
    /\ CancelWorker
    /\ UNCHANGED otherThanPeriodic

\* the cancelled worker leaves the loop after its last sleep
WorkerExit ==
    /\ worker.pc = "lastSleep"
    /\ worker.rem = 0
    /\ worker' = [pc |-> "done", rem |-> 0]
    /\ UNCHANGED << queue, running, sinceStart, accepted, refused,
                    dispatched, discarded, cleanupPc, sweepCount, commandCount,
                    otherThanPeriodic >>

\* a cleanup that leaves the queue as it is
KeepQueue(q) == q

\* "while not self.queue.empty(): self.queue.get_nowait()"
DrainQueue(q) == << >>

\* cleanup() after "await self.task": the queue is emptied
CleanupReturn ==
    /\ cleanupPc = "awaiting"
    /\ worker.pc = "done"
    /\ discarded' = discarded \cup { queue[i] : i \in 1..Len(queue) }
    /\ queue' = DrainQueue(queue)
    /\ cleanupPc' = "returned"
    /\ UNCHANGED << running, worker, sinceStart, accepted, refused,
                    dispatched, sweepCount, commandCount, otherThanPeriodic >>

\* one tick passes for the throttler; a sleep that is over ends first
PeriodicTick ==
    /\ ~(worker.pc \in {"sleep", "lastSleep"} /\ worker.rem = 0)
    /\ worker.rem > 0 \/ sinceStart < Period
    /\ worker' = [worker EXCEPT !.rem = Max(@ - 1, 0)]
    /\ sinceStart' = Min(sinceStart + 1, Period)
    /\ UNCHANGED << queue, running, accepted, refused, dispatched,
                    discarded, cleanupPc, sweepCount, commandCount, otherThanPeriodic >>

(* ------------------------------------------------------------------ *)
(* Topic helpers (cbus/daemon/topics.py) and get_topic_group_address.   *)
(* A string is the sequence of its characters.                          *)
(* ------------------------------------------------------------------ *)
\* number of topics built and parsed one after the other
MaxParsed == 2

\* _LIGHT_TOPIC_PREFIX = 'homeassistant/light/cbus_'
LIGHT_TOPIC_PREFIX ==
    << "h", "o", "m", "e", "a", "s", "s", "i", "s", "t", "a", "n", "t",
       "/", "l", "i", "g", "h", "t", "/", "c", "b", "u", "s", "_" >>
\* _BINSENSOR_TOPIC_PREFIX = 'homeassistant/binary_sensor/cbus_'
BINSENSOR_TOPIC_PREFIX ==
    << "h", "o", "m", "e", "a", "s", "s", "i", "s", "t", "a", "n", "t",
       "/", "b", "i", "n", "a", "r", "y", "_", "s", "e", "n", "s", "o",
       "r", "/", "c", "b", "u", "s", "_" >>
\* _TOPIC_SET_SUFFIX, _TOPIC_CONF_SUFFIX, _TOPIC_STATE_SUFFIX
TopicSuffix ==
    [set |-> << "/", "s", "e", "t" >>,
     config |-> << "/", "c", "o", "n", "f", "i", "g" >>,
     state |-> << "/", "s", "t", "a", "t", "e" >>]
\* _APPLICATION_GROUP_SEPARATOR = "_"
Separator == "_"
\* Application.LIGHTING == 0x38
LIGHTING == 56

DigitChar == << "0", "1", "2", "3", "4", "5", "6", "7", "8", "9" >>
DigitValue(c) == (CHOOSE i \in 1..10 : DigitChar[i] = c) - 1
IsDigit(c) == \E i \in 1..10 : DigitChar[i] = c

\* f"{n}" for n >= 0
RECURSIVE Dec(_)
Dec(n) ==
    IF n < 10 THEN << DigitChar[n + 1] >>
    ELSE Dec(n \div 10) \o << DigitChar[(n % 10) + 1] >>

\* f"{n:03d}" for n >= 0
Dec3(n) == LET d == Dec(n) IN [i \in 1..(3 - Len(d)) |-> "0"] \o d

ga_string(group_addr, app_addr, zeros) ==
    IF app_addr = LIGHTING
    THEN IF zeros THEN Dec3(group_addr) ELSE Dec(group_addr)
    ELSE Dec3(app_addr) \o << Separator >> \o Dec3(group_addr)

\* set_topic, state_topic, conf_topic, by the name of the suffix
LightTopic(kind, group_addr, app_addr) ==
    LIGHT_TOPIC_PREFIX \o ga_string(group_addr, app_addr, FALSE) \o TopicSuffix[kind]

\* bin_sensor_state_topic, bin_sensor_conf_topic
BinSensorTopic(kind, group_addr, app_addr) ==
    BINSENSOR_TOPIC_PREFIX \o ga_string(group_addr, app_addr, FALSE) \o TopicSuffix[kind]

\* str.startswith, str.endswith
StartsWith(str, prefix) ==
    Len(prefix) <= Len(str) /\ SubSeq(str, 1, Len(prefix)) = prefix
EndsWith(str, suffix) ==
    Len(suffix) <= Len(str)
    /\ SubSeq(str, Len(str) - Len(suffix) + 1, Len(str)) = suffix

\* str.split(sep): the pieces between the separators, empty pieces included
RECURSIVE Split(_, _)
Split(str, sep) ==
    IF \A i \in 1..Len(str) : str[i] # sep THEN << str >>
    ELSE LET i == CHOOSE k \in 1..Len(str) :
                      str[k] = sep /\ \A j \in 1..(k - 1) : str[j] # sep
         IN << SubSeq(str, 1, i - 1) >> \o Split(SubSeq(str, i + 1, Len(str)), sep)

\* str.strip() of blanks
RECURSIVE Strip(_)
Strip(str) ==
    IF str # << >> /\ str[1] = " " THEN Strip(Tail(str))
    ELSE IF str # << >> /\ str[Len(str)] = " " THEN Strip(SubSeq(str, 1, Len(str) - 1))
    ELSE str

RECURSIVE Numeral(_)
Numeral(digits) ==
    IF digits = << >> THEN 0
    ELSE 10 * Numeral(SubSeq(digits, 1, Len(digits) - 1)) + DigitValue(digits[Len(digits)])

\* int(str): blanks around it and a sign before the digits are accepted;
\* anything else raises ValueError
IntOf(str) ==
    LET t == Strip(str)
        signed == t # << >> /\ t[1] \in {"+", "-"}
        digits == IF signed THEN Tail(t) ELSE t
    IN IF digits # << >> /\ \A i \in 1..Len(digits) : IsDigit(digits[i])
       THEN [ok |-> TRUE,
             val |-> IF signed /\ t[1] = "-" THEN 0 - Numeral(digits) ELSE Numeral(digits)]
       ELSE [ok |-> FALSE, val |-> 0]

\* cbus.common.MIN_GROUP_ADDR, MAX_GROUP_ADDR: ga_range() has 256 values, and
\* check_ga accepts each of them
MIN_GROUP_ADDR == 0
MAX_GROUP_ADDR == 255
check_ga(ga) == MIN_GROUP_ADDR <= ga /\ ga <= MAX_GROUP_ADDR

ValueError == [ok |-> FALSE, error |-> "ValueError"]

\* a parser that takes the first part of the address for the group
FirstPartIsGroup(topic) ==
    IF ~StartsWith(topic, LIGHT_TOPIC_PREFIX) THEN ValueError
    ELSE LET rest == SubSeq(topic, Len(LIGHT_TOPIC_PREFIX) + 1, Len(topic))
             ga == IntOf(Split(Split(rest, "/")[1], Separator)[1])
         IN IF ~ga.ok \/ ~check_ga(ga.val) THEN ValueError
            ELSE [ok |-> TRUE, ga |-> ga.val, aa |-> LIGHTING]

get_topic_group_address(topic) ==
    IF ~StartsWith(topic, LIGHT_TOPIC_PREFIX) THEN ValueError
    ELSE LET rest == SubSeq(topic, Len(LIGHT_TOPIC_PREFIX) + 1, Len(topic))
             parts == Split(Split(rest, "/")[1], Separator)
             a1 == parts[1]
             a2 == Tail(parts)
             aa == IF a2 # << >> THEN IntOf(a1) ELSE [ok |-> TRUE, val |-> LIGHTING]
             ga == IF a2 # << >> THEN IntOf(a2[1]) ELSE IntOf(a1)
         IN IF ~aa.ok \/ ~ga.ok THEN ValueError
            ELSE IF ~check_ga(ga.val) THEN ValueError
            ELSE [ok |-> TRUE, ga |-> ga.val, aa |-> aa.val]

\* the groups and applications whose topics are built
Groups == MIN_GROUP_ADDR..MAX_GROUP_ADDR
Applications == {48, LIGHTING, 255}
\* the groups of the second topic
FewGroups == {0, 1, 48, 56, 100, 255}
TopicKinds == {"set", "state", "config"}

\* a topic is built for a group and an application and parsed back
BuildAndParse(kind, group_addr, app_addr) ==
    /\ Len(parsed) < MaxParsed
    /\ parsed # << >> => group_addr \in FewGroups
    /\ LET topic == LightTopic(kind, group_addr, app_addr)
       IN parsed' = Append(parsed, [kind |-> kind, group |-> group_addr, app |-> app_addr,
                                    topic |-> topic,
                                    result |-> get_topic_group_address(topic)])
    /\ UNCHANGED << dispatcher, msgLog, mqttOut, handleClockRequests, main, cbusIn,
                    sessionVars, otherThanGateway >>

(* ------------------------------------------------------------------ *)
(* MqttClient._dispatcher_loop and _handle_message for any message      *)
(* ------------------------------------------------------------------ *)
\* number of messages the broker delivers
MaxMessages == 2

\* the text between the prefix and the suffix of the topics delivered
AddressTexts ==
    { << "1" >>,
      << "2", "5", "5" >>,
      << "0" >>,
      << "2", "5", "6" >>,
      << "9", "0", "0", "0" >>,
      << "a", "b", "c" >>,
      <<  >>,
      << "-", "1" >>,
      << "+", "5" >>,
      << "0", "4", "8", "_", "0", "0", "1" >>,
      << "1", "_", "2", "_", "3" >>,
      << "1", "_" >>,
      << "x", "_", "1" >> }

\* topics of the messages: command topics with these addresses, a state
\* topic, and topics of other integrations
MessageTopics ==
    { LIGHT_TOPIC_PREFIX \o a \o TopicSuffix.set : a \in AddressTexts }
    \cup { LightTopic("state", 1, LIGHTING),
           << "h", "o", "m", "e", "a", "s", "s", "i", "s", "t", "a", "n", "t", "/", "l", "i", "g", "h", "t", "/", "m", "y", "_", "l", "i", "g", "h", "t", "/", "s", "e", "t" >>,
           << "l", "i", "g", "h", "t", "/", "c", "b", "u", "s", "_", "1", "/", "s", "e", "t" >> }

\* payloads: text that is no JSON, and JSON objects with and without "state"
MessagePayloads ==
    { [json |-> FALSE, obj |-> [text |-> "garbage"]] }
    \cup { [json |-> TRUE, obj |-> o] :
              o \in { [state |-> "ON"], [state |-> "OFF", transition |-> 4],
                      [state |-> "on", brightness |-> 300],
                      [brightness |-> 128] } }

Messages == { [topic |-> t, payload |-> p] : t \in MessageTopics, p \in MessagePayloads }

\* _handle_message: returns False (ignored, or an error logged), enqueues
\* switchLight and returns True, or lets the KeyError of payload['state'] out
HandleAny(msg) ==
    IF ~(StartsWith(msg.topic, LIGHT_TOPIC_PREFIX)
         /\ EndsWith(msg.topic, TopicSuffix.set))
    THEN [outcome |-> "ignored"]
    ELSE LET addr == get_topic_group_address(msg.topic)
         IN IF ~addr.ok THEN [outcome |-> "invalid topic"]
            ELSE IF ~msg.payload.json THEN [outcome |-> "parse error"]
            ELSE IF "state" \notin DOMAIN msg.payload.obj
                 THEN [outcome |-> "KeyError"]
            ELSE [outcome |-> "enqueued",
                  arg |-> SwitchLightArgs(<< addr.aa, addr.ga >>, msg.payload.obj)]

\* one pass of "async for msg in self._client.messages"; an exception out of
\* _handle_message ends the loop in "except Exception"
OnMessage(msg) ==
    /\ dispatcher = "running"
    /\ Len(msgLog) < MaxMessages
    /\ LET h == HandleAny(msg)
       IN /\ msgLog' = Append(msgLog, [msg |-> msg, outcome |-> h.outcome])
          /\ dispatcher' = IF h.outcome = "KeyError" THEN "crashed" ELSE "running"
          /\ IF h.outcome = "enqueued"
             THEN Offer(<< [id |-> Len(SweepBlocks) * MaxSweeps + MaxCommands
                                     + Len(msgLog) + 1,
                            fn |-> "switchLight", arg |-> h.arg] >>)
             ELSE UNCHANGED << queue, accepted, refused >>
    /\ UNCHANGED << running, worker, sinceStart, dispatched, discarded, cleanupPc,
                    sweepCount, commandCount, parsed, mqttOut, handleClockRequests,
                    main, cbusIn, sessionVars, resetVars, lightVars, taskVars >>

\* get_topic_group_address applied to a topic as it comes
ParseTopic(topic) ==
    /\ parsed = << >>
    /\ parsed' = << [topic |-> topic, result |-> get_topic_group_address(topic)] >>
    /\ UNCHANGED << dispatcher, msgLog, mqttOut, handleClockRequests, main, cbusIn,
                    sessionVars, otherThanGateway >>

(* ------------------------------------------------------------------ *)
(* MqttClient: discovery, state publishes, and the relay of the events  *)
(* of the PCI (CBusHandler.on_lighting_group_*, on_level_report)        *)
(* ------------------------------------------------------------------ *)
\* number of lighting events and level reports received
MaxEvents == 2
\* number of levels in a level report
MaxLevels == 2

\* a level that is None in a report
NoLevel == 0 - 1
Levels == {NoLevel, 0, 128, 255}
LevelReports == UNION { [1..n -> Levels] : n \in 1..MaxLevels }
\* the (application, group) pairs of the events
EventGAs == { << LIGHTING, 1 >>, << LIGHTING, 2 >>, << 48, 1 >> }
\* source address of the units whose events the PCI reports
SourceAddr == 7

\* label maps of the project file: (application, group) -> name
Hall == << "H", "a", "l", "l" >>
LabelMaps ==
    { [ga \in d |-> Hall] : d \in SUBSET { << LIGHTING, 1 >>, << 48, 1 >> } }

\* default_light_name
DefaultLightName(group_addr, app_addr) ==
    << "C", "-", "B", "u", "s", " ", "L", "i", "g", "h", "t", " " >> \o ga_string(group_addr, app_addr, TRUE)

Subscribe(topic, qos) == [op |-> "subscribe", topic |-> topic, qos |-> qos]
\* publish(topic, payload, qos=1, retain=True)
Publish(topic, payload) ==
    [op |-> "publish", topic |-> topic, payload |-> payload, qos |-> 1, retain |-> TRUE]

\* MqttClient.publish_light on the client state st = [out, db]
PublishLight(st, group_addr, app_addr, name) ==
    LET uid == << "c", "b", "u", "s", "_", "l", "i", "g", "h", "t", "_" >> \o ga_string(group_addr, app_addr, FALSE)
        sensor_uid == << "c", "b", "u", "s", "_", "b", "i", "n", "_", "s", "e", "n", "s", "o", "r", "_" >>
                          \o ga_string(group_addr, app_addr, FALSE)
    IN [out |-> st.out \o
                << Subscribe(LightTopic("set", group_addr, app_addr), 2),
                   Publish(LightTopic("config", group_addr, app_addr),
                           [kind |-> "light config", name |-> name, unique_id |-> uid]),
                   Publish(BinSensorTopic("config", group_addr, app_addr),
                           [kind |-> "sensor config",
                            name |-> name \o << " ", "(", "a", "s", " ", "b", "i", "n", "a", "r", "y", " ", "s", "e", "n", "s", "o", "r", ")" >>,
                            unique_id |-> sensor_uid]) >>,
        db |-> st.db \cup { << app_addr, group_addr >> }]

\* a check_published that publishes the configs whether the group is known or not
AlwaysPublish(st, group_addr, app_addr) ==
    PublishLight(st, group_addr, app_addr, DefaultLightName(group_addr, app_addr))

\* MqttClient.check_published
check_published(st, group_addr, app_addr) ==
    IF << app_addr, group_addr >> \in st.db THEN st
    ELSE PublishLight(st, group_addr, app_addr, DefaultLightName(group_addr, app_addr))

\* the state publish and the binary sensor publish of lighting_group_on/off/ramp
StatePublishes(st, source_addr, group_addr, app_addr, state, level, duration, sensor) ==
    [st EXCEPT !.out = @ \o
        << Publish(LightTopic("state", group_addr, app_addr),
                   [kind |-> "state", state |-> state, brightness |-> level,
                    transition |-> duration, cbus_source_addr |-> source_addr]),
           Publish(BinSensorTopic("state", group_addr, app_addr),
                   [kind |-> "sensor state", text |-> IF sensor THEN "ON" ELSE "OFF"]) >>]

\* MqttClient.lighting_group_on, lighting_group_off, lighting_group_ramp
lighting_group_on(st, source_addr, group_addr, app_addr) ==
    StatePublishes(check_published(st, group_addr, app_addr),
                   source_addr, group_addr, app_addr, "ON", 255, 0, TRUE)
lighting_group_off(st, source_addr, group_addr, app_addr) ==
    StatePublishes(check_published(st, group_addr, app_addr),
                   source_addr, group_addr, app_addr, "OFF", 0, 0, FALSE)
\* a ramp that is relayed as if the group had been switched on
RampAsOn(st, source_addr, group_addr, app_addr, duration, level) ==
    lighting_group_on(st, source_addr, group_addr, app_addr)

lighting_group_ramp(st, source_addr, group_addr, app_addr, duration, level) ==
    StatePublishes(check_published(st, group_addr, app_addr),
                   source_addr, group_addr, app_addr, "ON", level, duration, level > 0)

\* the lighting events: what the PCI reported, by kind
LightingEvents ==
    { [kind |-> k, ga |-> ga, duration |-> 0, level |-> 0] :
          k \in {"on", "off"}, ga \in EventGAs }
    \cup { [kind |-> "ramp", ga |-> ga, duration |-> d, level |-> l] :
              ga \in EventGAs, d \in {0, 4}, l \in {0, 128} }

\* CBusHandler.on_lighting_group_on/off/ramp: the relay and what it calls
RelayEvent(st, e, source_addr) ==
    IF ~Relays THEN st
    ELSE IF e.kind = "on" THEN lighting_group_on(st, source_addr, e.ga[2], e.ga[1])
    ELSE IF e.kind = "off" THEN lighting_group_off(st, source_addr, e.ga[2], e.ga[1])
    ELSE lighting_group_ramp(st, source_addr, e.ga[2], e.ga[1], e.duration, e.level)

\* CBusHandler.on_level_report after its guard: the loop over the report
RECURSIVE ReportLoop(_, _, _, _)
ReportLoop(st, app_addr, start, report) ==
    IF report = << >> THEN st
    ELSE LET val == Head(report)
             s1 == check_published(st, start, app_addr)
             ga == << app_addr, start >>
             s2 == IF val = NoLevel THEN st
                   ELSE IF val = 0
                        THEN RelayEvent(s1, [kind |-> "off", ga |-> ga], 0)
                   ELSE IF val = 255
                        THEN RelayEvent(s1, [kind |-> "on", ga |-> ga], 0)
                   ELSE RelayEvent(s1, [kind |-> "ramp", ga |-> ga,
                                        duration |-> 0, level |-> val], 0)
         IN ReportLoop(s2, app_addr, start + 1, Tail(report))

\* the client as the handlers see it
Client == [out |-> mqttOut, db |-> groupDB]

\* the calls a handler added to those made before
NewCalls(st) == SubSeq(st.out, Len(mqttOut) + 1, Len(st.out))

GatewayFrame ==
    UNCHANGED << transport, conns, inUse, pending, nextIdx, isClosing, mqttApi,
                 gapQ, rl, ts, confQ, confCount, nextSid, writes, confirmed, ticks,
                 parsed, dispatcher, msgLog, handleClockRequests, main,
                 otherThanGateway >>

\* the events and reports received so far
EventCount == Cardinality({ i \in 1..Len(cbusIn) : cbusIn[i].kind # "enter" })

\* a lighting SAL from the PCI reaches on_lighting_group_on/off/ramp
LightingEvent(e) ==
    /\ transport # 0
    /\ EventCount < MaxEvents
    /\ LET st == RelayEvent(Client, e, SourceAddr)
       IN /\ mqttOut' = st.out
          /\ groupDB' = st.db
          /\ cbusIn' = Append(cbusIn, [kind |-> "event", event |-> e, relayed |-> Relays,
                                       before |-> groupDB, out |-> NewCalls(st)])
    /\ UNCHANGED << mqttEntered, sweeps >>
    /\ GatewayFrame

\* a level status report from the PCI reaches on_level_report
LevelReport(app_addr, start, report) ==
    /\ transport # 0
    /\ EventCount < MaxEvents
    /\ LET st == IF Relays THEN ReportLoop(Client, app_addr, start, report) ELSE Client
       IN /\ mqttOut' = st.out
          /\ groupDB' = st.db
          /\ cbusIn' = Append(cbusIn, [kind |-> "report", app |-> app_addr, start |-> start,
                                       report |-> report, relayed |-> Relays,
                                       before |-> groupDB, out |-> NewCalls(st)])
    /\ UNCHANGED << mqttEntered, sweeps >>
    /\ GatewayFrame

\* publish_all_lights: publish_light for every labelled group
RECURSIVE PublishLabelled(_, _, _)
PublishLabelled(st, labels, todo) ==
    IF todo = {} THEN st
    ELSE LET ga == CHOOSE x \in todo : \A y \in todo : x[1] < y[1] \/ (x[1] = y[1] /\ x[2] <= y[2])
         IN PublishLabelled(PublishLight(st, ga[2], ga[1], labels[ga]), labels, todo \ {ga})

MetaTopic == << "h", "o", "m", "e", "a", "s", "s", "i", "s", "t", "a", "n", "t", "/", "b", "i", "n", "a", "r", "y", "_", "s", "e", "n", "s", "o", "r", "/", "c", "b", "u", "s", "_", "c", "m", "q", "t", "t", "d" >>

\* MqttClient.__aenter__ from "self._userdata.mqtt_api = self" on, with the
\* label map of the handler
GatewayEnter(labels) ==
    /\ ~mqttEntered
    /\ conns >= 1
    /\ mqttEntered' = TRUE
    /\ mqttApi' = TRUE
    /\ LET meta == [Client EXCEPT !.out = @ \o
                       << Publish(MetaTopic \o TopicSuffix.config,
                                  [kind |-> "meta config", name |-> "cmqttd",
                                   unique_id |-> "cmqttd"]) >>]
           st == PublishLabelled(meta, labels, DOMAIN labels)
       IN /\ mqttOut' = st.out
          /\ groupDB' = st.db
          /\ cbusIn' = Append(cbusIn, [kind |-> "enter", labels |-> labels,
                                       before |-> groupDB, out |-> NewCalls(st)])
    /\ sweeps' = sweeps + 1
    /\ UNCHANGED << transport, conns, inUse, pending, nextIdx, isClosing,
                    gapQ, rl, ts, confQ, confCount, nextSid, writes, confirmed, ticks,
                    parsed, dispatcher, msgLog, handleClockRequests, main,
                    otherThanGateway >>

(* ------------------------------------------------------------------ *)
(* Specifications                                                       *)
(* ------------------------------------------------------------------ *)
Next ==
    \/ ConnectionMade
    \/ ConnectionLost
    \/ MqttEnter
    \/ \E ga \in GAs : OnLightingEvent(ga)
    \/ \E ga \in GAs : SwitchLight(ga)
    \/ RequestStatus
    \/ OnClockRequest
    \/ \E k \in Loops : Timesync(k)
    \/ \E k \in Loops : RetryPass(k)
    \/ SendResume
    \/ RetryResume
    \/ \E c \in ConfirmationInputs, ok \in BOOLEAN : OnConfirmation(c, ok)
    \/ ConfirmationTasks
    \/ Tick
    \/ IdleTick

Spec == Init /\ [][Next]_vars

(* ------------------------------------------------------------------ *)
(* A burst of sends.  The state 19 sends into a burst: connection_made  *)
(* has started the timesync loop, whose first clock_datetime() acquired *)
(* the first code, and BurstSize - 1 clock requests have arrived in the *)
(* same 0.1 s, so that every one of these sends is still inside the     *)
(* sleep(0.1) of _send_packet.                                          *)
(* ------------------------------------------------------------------ *)
InitBurst ==
    /\ transport = 1
    /\ conns = 1
    /\ inUse = [i \in 1..BurstSize |->
                   [code |-> CodeAt(i - 1), age |-> 0, sid |-> BurstSid(i)]]
    /\ pending = << >>
    /\ nextIdx = BurstSize % NumCodes
    /\ isClosing = FALSE
    /\ mqttApi = FALSE
    /\ mqttEntered = FALSE
    /\ groupDB = {}
    /\ sweeps = 0
    /\ gapQ = [i \in 1..BurstSize |->
                  [kind |-> IF i = 1 THEN "timesync" ELSE "send",
                   sid |-> BurstSid(i), code |-> CodeAt(i - 1), tr |-> 1,
                   ga |-> 0, loop |-> IF i = 1 THEN 1 ELSE 0, ticked |-> FALSE]]
    /\ rl = [k \in Loops |->
                IF k = 1
                THEN [pc |-> "sleep", rem |-> RetryInterval, toRetry |-> << >>, iterAge |-> 0]
                ELSE NoLoop]
    /\ ts = [k \in Loops |-> IF k = 1 THEN [pc |-> "gap", rem |-> 0] ELSE NoTimesync]
    /\ confQ = << >>
    /\ confCount = 0
    /\ nextSid = 1
    /\ writes = [d \in SendIds |-> 0]
    /\ confirmed = {}
    /\ ticks = 0
    /\ InitExt
    /\ DefaultOptions

\* the burst goes on with more clock requests; no confirmation arrives
NextBurst ==
    \/ OnClockRequest
    \/ \E k \in Loops : Timesync(k)
    \/ \E k \in Loops : RetryPass(k)
    \/ SendResume
    \/ RetryResume
    \/ Tick

SpecBurst == InitBurst /\ [][NextBurst]_vars

(* ------------------------------------------------------------------ *)
(* The cursor about to wrap.  The state NumCodes - 1 sends into a       *)
(* connection in which every send but the first has been confirmed:     *)
(* the first code of the alphabet is still in use, its packet is        *)
(* written and pending, and the cursor stands at the last code.         *)
(* ------------------------------------------------------------------ *)
InitWrap ==
    /\ transport = 1
    /\ conns = 1
    /\ inUse = << [code |-> CodeAt(0), age |-> 0, sid |-> BurstSid(1)] >>
    /\ pending = << [code |-> CodeAt(0), data |-> BurstSid(1), attempts |-> 1, age |-> 0] >>
    /\ nextIdx = BurstSize % NumCodes
    /\ isClosing = FALSE
    /\ mqttApi = FALSE
    /\ mqttEntered = FALSE
    /\ groupDB = {}
    /\ sweeps = 0
    /\ gapQ = << >>
    /\ rl = [k \in Loops |->
                IF k = 1
                THEN [pc |-> "sleep", rem |-> RetryInterval, toRetry |-> << >>, iterAge |-> 0]
                ELSE NoLoop]
    /\ ts = [k \in Loops |->
                IF k = 1 THEN [pc |-> "sleep", rem |-> TimesyncFrequency] ELSE NoTimesync]
    /\ confQ = << >>
    /\ confCount = 0
    /\ nextSid = 1
    /\ writes = [d \in SendIds |-> IF d \in { BurstSid(i) : i \in 1..BurstSize } THEN 1 ELSE 0]
    /\ confirmed = { BurstSid(i) : i \in 2..BurstSize }
    /\ ticks = 0
    /\ InitExt
    /\ DefaultOptions

\* the timers fire and the event loop runs every task that is ready
Fairness ==
    /\ WF_vars(Tick)
    /\ WF_vars(IdleTick)
    /\ WF_vars(SendResume)
    /\ WF_vars(RetryResume)
    /\ WF_vars(ConfirmationTasks)
    /\ \A k \in Loops : WF_vars(RetryPass(k))
    /\ \A k \in Loops : WF_vars(Timesync(k))

\* the PCIProtocol part of the program: the MQTT client is never entered
NextProtocol ==
    \/ ConnectionMade
    \/ ConnectionLost
    \/ OnClockRequest
    \/ \E k \in Loops : Timesync(k)
    \/ \E k \in Loops : RetryPass(k)
    \/ SendResume
    \/ RetryResume
    \/ \E c \in ConfirmationInputs, ok \in BOOLEAN : OnConfirmation(c, ok)
    \/ ConfirmationTasks
    \/ Tick
    \/ IdleTick

SpecLive == Init /\ [][NextProtocol]_vars /\ Fairness

\* the same part of the program, from the cursor about to wrap
SpecWrap == InitWrap /\ [][NextProtocol]_vars

\* the first second of a connection: connection_made starts pci_reset, the
\* timesync loop makes its first broadcast and clock requests are answered; the
\* retry loop is in its first sleep(self._retry_interval)
NextReset ==
    \/ ConnectionMadeReset
    \/ ConnectionLost
    \/ \E k \in Loops : PciReset(k)
    \/ ResetResume
    \/ \E k \in Loops : Timesync(k)
    \/ OnClockRequest
    \/ SendResume

SpecReset == Init /\ [][NextReset]_vars

\* the lighting calls of a client of the session, connected or not
NextLighting ==
    \/ ConnectionMade
    \/ ConnectionLost
    \/ \E op \in LightingOps, groupAddr \in GroupAddrInputs : LightingGroup(op, groupAddr)
    \/ LightingResume

SpecLighting == Init /\ [][NextLighting]_vars

\* the throttler with the gateway as its client
NextPeriodic ==
    \/ QueueStatusRequests
    \/ \E ga \in GAs, payload \in Payloads : HandleMessage(ga, payload)
    \/ WorkerLoop
    \/ WorkerGet
    \/ Cleanup
    \/ WorkerExit
    \/ CleanupReturn
    \/ PeriodicTick

SpecPeriodic == Init /\ [][NextPeriodic]_vars

NextTopics ==
    \E kind \in TopicKinds, g \in Groups, a \in Applications : BuildAndParse(kind, g, a)

SpecTopics == Init /\ [][NextTopics]_vars

NextMessages ==
    \/ \E msg \in Messages : OnMessage(msg)
    \/ \E topic \in MessageTopics : ParseTopic(topic)
    \/ WorkerLoop
    \/ WorkerGet
    \/ PeriodicTick

SpecMessages == Init /\ [][NextMessages]_vars

\* the MQTT side: SpecGateway follows several applications, and the entries
\* of groupDB are (application, group) pairs
NextGateway ==
    \/ ConnectionMade
    \/ ConnectionLost
    \/ \E labels \in LabelMaps : GatewayEnter(labels)
    \/ \E e \in LightingEvents : LightingEvent(e)
    \/ \E ga \in EventGAs, report \in LevelReports : LevelReport(ga[1], ga[2], report)

SpecGateway == Init /\ [][NextGateway]_vars

(* ------------------------------------------------------------------ *)
(* Clock requests.  The daemon is started with or without --no-clock:   *)
(* main passes handle_clock_requests = not option.no_clock to the       *)
(* handler; handle_cbus_packet calls on_clock_request for every         *)
(* ClockRequestSAL, and CBusHandler overrides on_clock_request.         *)
(* ------------------------------------------------------------------ *)
\* number of clock requests received
MaxClockRequests == 2

InitClock ==
    /\ InitSession
    /\ InitExt
    /\ handleClockRequests \in BOOLEAN
    /\ timesyncFrequency = TimesyncFrequency
    /\ resync = NoResync(ResyncFrequency)

\* a ClockRequestSAL reaches CBusHandler.on_clock_request:
\* "if not self._is_closing: asyncio.create_task(self.clock_datetime())"
ClockRequest ==
    /\ transport # 0
    /\ ~ResetReady
    /\ nextSid <= MaxSends
    /\ Len(cbusIn) < MaxClockRequests
    /\ IF isClosing
       THEN UNCHANGED << inUse, pending, nextIdx, nextSid, gapQ >>
       ELSE StartSend("send", 0, 0)
    /\ cbusIn' = Append(cbusIn, [kind |-> "clock request",
                                 enabled |-> handleClockRequests,
                                 closing |-> isClosing,
                                 sid |-> nextSid])
    /\ UNCHANGED << transport, conns, isClosing, mqttApi, mqttEntered, groupDB,
                    sweeps, rl, ts, confQ, confCount, writes, confirmed, ticks,
                    parsed, dispatcher, msgLog, mqttOut, handleClockRequests, main,
                    otherThanGateway >>

NextClock ==
    \/ ConnectionMade
    \/ ConnectionLost
    \/ ClockRequest
    \/ \E k \in Loops : Timesync(k)
    \/ \E k \in Loops : RetryPass(k)
    \/ SendResume
    \/ RetryResume
    \/ \E c \in ConfirmationInputs, ok \in BOOLEAN : OnConfirmation(c, ok)
    \/ ConfirmationTasks
    \/ Tick
    \/ IdleTick

SpecClock == InitClock /\ [][NextClock]_vars

(* ------------------------------------------------------------------ *)
(* The supervisor (cmqttd._main).  Init is _main after                  *)
(* "throttler = Periodic(period=0.2)" and the parsing of the options;   *)
(* main.critical counts the calls of logger.critical.                   *)
(* ------------------------------------------------------------------ *)
MainFrame ==
    UNCHANGED << parsed, dispatcher, msgLog, mqttOut, handleClockRequests, cbusIn,
                 resetVars, lightVars, taskVars >>

\* "_, protocol = await loop.create_connection(factory, ...)" (or
\* create_serial_connection): it returns, or it raises and the exception
\* leaves _main, the statement being outside the try
MainConnect(raises) ==
    /\ main.pc = "start"
    /\ main' = [main EXCEPT !.pc = IF raises THEN "raised" ELSE "connected"]
    /\ MainFrame
    /\ UNCHANGED << sessionVars, periodicVars >>

\* the transport calls connection_made on the protocol of the factory
MainConnectionMade ==
    /\ main.pc = "connected"
    /\ conns = 0
    /\ ConnectionMade

\* the MQTT client is set up and _main reaches "await connection_lost_future"
MainAwait ==
    /\ main.pc = "connected"
    /\ conns = 1
    /\ main' = [main EXCEPT !.pc = "waiting"]
    /\ MainFrame
    /\ UNCHANGED << sessionVars, periodicVars >>

\* the connection to the PCI is lost while _main waits
MainConnectionLost ==
    /\ main.pc = "waiting"
    /\ ConnectionLost

\* status requests are queued while _main waits
MainQueueStatusRequests ==
    /\ main.pc = "waiting"
    /\ QueueStatusRequests

\* the await ends: the future is resolved by connection_lost, or the task
\* is cancelled (KeyboardInterrupt, CancelledError: "Shutting down...")
MainWake(cancelled) ==
    /\ main.pc = "waiting"
    /\ cancelled \/ transport = 0
    /\ main' = [main EXCEPT !.pc = "finally"]
    /\ MainFrame
    /\ UNCHANGED << sessionVars, periodicVars >>

\* finally: "await throttler.cleanup()" up to its await
MainFinally ==
    /\ main.pc = "finally"
    /\ CancelWorker
    /\ main' = [main EXCEPT !.pc = "cleanup"]
    /\ MainFrame
    /\ UNCHANGED sessionVars

\* throttler.cleanup() has returned: the rest of the finally clause, and
\* _main returns
MainReturn ==
    /\ main.pc = "cleanup"
    /\ cleanupPc = "returned"
    /\ main' = [main EXCEPT !.pc = "returned"]
    /\ MainFrame
    /\ UNCHANGED << sessionVars, periodicVars >>

NextMain ==
    \/ \E raises \in BOOLEAN : MainConnect(raises)
    \/ MainConnectionMade
    \/ MainAwait
    \/ MainConnectionLost
    \/ MainQueueStatusRequests
    \/ \E cancelled \in BOOLEAN : MainWake(cancelled)
    \/ MainFinally
    \/ MainReturn
    \/ WorkerLoop
    \/ WorkerGet
    \/ WorkerExit
    \/ CleanupReturn
    \/ PeriodicTick

SpecMain == Init /\ [][NextMain]_vars

(* ------------------------------------------------------------------ *)
(* Properties                                                           *)
(* ------------------------------------------------------------------ *)
SendKinds == {"send", "switchLight", "timesync"}

\* the sends that have acquired a code and have not yet inserted their entry
InFlight == { i \in 1..Len(gapQ) : gapQ[i].kind \in SendKinds }

Disconnected == transport = 0 /\ conns >= 1

\* the step in which the two tasks of one confirmation packet run
ConfirmationStep == confQ # << >> /\ confQ' = Tail(confQ)

CodesAccountedFor ==
    /\ Len(inUse) <= NumCodes
    /\ \A i \in 1..Len(inUse) :
          \/ HasCode(pending, inUse[i].code)
          \/ \E j \in InFlight : gapQ[j].code = inUse[i].code

\* C8: while the session is disconnected the pending table and the codes in
\* use are empty.
EmptyWhileDisconnected ==
    Disconnected => inUse = << >> /\ pending = << >>

\* C9: the published groups, empty after connection_lost, remain empty until
\* the next connection_made.
GroupDBEmptyWhileDisconnected ==
    [][(Disconnected /\ mqttEntered /\ groupDB = {} /\ transport' = 0)
          => groupDB' = {}]_vars

\* C10: a connection_made that follows a connection_lost which cleared the
\* published groups of the entered MQTT client enqueues a status sweep and
\* leaves the handler relaying events.
RediscoveryOnReconnect ==
    [][(Disconnected /\ mqttEntered /\ groupDB = {} /\ transport' # 0)
          => sweeps' = sweeps + 1 /\ mqttApi' /\ ~isClosing']_vars

\* C4: once a confirmation has removed the pending entry of a packet, the
\* packet is never written to the transport again.
NoWriteAfterConfirmation ==
    [][\A d \in confirmed : writes'[d] = writes[d]]_vars

\* C3: as long as no confirmation has arrived, no packet has been written to
\* the transport more than max_retries times.
AtMostMaxRetriesWrites ==
    confCount = 0 => \A d \in SendIds : writes[d] <= MaxRetries

\* the in-use entry made by the send of gap entry e
Owns(iu, e) == \E j \in 1..Len(iu) : iu[j].code = e.code /\ iu[j].sid = e.sid

\* C6: while a send is between acquiring its code and inserting its pending
\* entry, no confirmation, reap or forced release takes the code away from it.
SendIsAtomic ==
    [][\A i \in InFlight :
          (Owns(inUse, gapQ[i]) /\ transport' = transport) => Owns(inUse', gapQ[i])]_vars

\* the packets that carry code c and are neither confirmed nor abandoned
Carriers(c) ==
    { gapQ[i].sid : i \in { j \in InFlight : gapQ[j].code = c } }
    \cup { pending[i].data : i \in { j \in 1..Len(pending) : pending[j].code = c } }

\* C7: no two unresolved sends carry the same confirmation code.
OneOwnerPerCode ==
    \A c \in CodeSet : Cardinality(Carriers(c)) <= 1

\* packet d has been passed to _send and is not yet resolved
Unresolved(d) ==
    \/ \E i \in 1..Len(gapQ) : gapQ[i].sid = d
    \/ \E i \in 1..Len(pending) : pending[i].data = d
    \/ \E i \in 1..Len(inUse) : inUse[i].sid = d

\* C1: every packet sent with confirmation is eventually resolved: its entry
\* has left the pending table and its code has left the codes in use.
EventuallyResolved ==
    \A d \in 1..MaxSends : Unresolved(d) ~> ~Unresolved(d)

\* a packet that no confirmation answered was written max_retries times and
\* then abandoned
AbandonedAfterRetries ==
    \E d \in 1..MaxSends :
        /\ writes[d] = MaxRetries
        /\ d \notin confirmed
        /\ ~Unresolved(d)

\* s is an initial part of t
IsPrefix(s, t) == Len(s) <= Len(t) /\ \A i \in 1..Len(s) : s[i] = t[i]

\* a packet as the reset sequence is to put it on the wire: no leading
\* backslash, no confirmation code
BasicNoCode(cmd) ==
    [backslash |-> FALSE, cls |-> cmd.cls, parameter |-> cmd.parameter,
     value |-> cmd.value, code |-> NoCode]

\* three Reset packets, then 0x21=0xFF, 0x22=0xFF, 0x42=0x0E, 0x30=0x79
ResetSequence ==
    << BasicNoCode(ResetPacket), BasicNoCode(ResetPacket), BasicNoCode(ResetPacket),
       BasicNoCode(DeviceManagementPacket(33, 255)),
       BasicNoCode(DeviceManagementPacket(34, 255)),
       BasicNoCode(DeviceManagementPacket(66, 14)),
       BasicNoCode(DeviceManagementPacket(48, 121)) >>

\* C11: what pci_reset has written to a transport is an initial part of the
\* sequence Reset, Reset, Reset, 0x21=0xFF, 0x22=0xFF, 0x42=0x0E, 0x30=0x79,
\* every packet without leading backslash and without confirmation code.
ResetSequenceOnWire ==
    \A t \in Loops : IsPrefix(wire[t], ResetSequence)

\* the pci_reset task of the current connection has not yet written its last packet
Resetting ==
    /\ transport # 0
    /\ rst[transport].pc \in {"ready", "gap"}

\* C12: between connection_made and the write of the last packet of the reset
\* sequence no other packet is written to the transport.
NoTrafficWhileResetting ==
    [][Resetting =>
          \A d \in 1..MaxSends : writes'[d] = writes[d]]_vars

\* the step in which a lighting call is made
LightingCallStep == Len(calls') = Len(calls) + 1

\* the outcome of the call made in this step, for the claimed batching rule
\* when connected is TRUE, and for any call otherwise
BatchingRule(whenConnected) ==
    LET c == calls'[Len(calls')]
        n == Len(c.group_addr)
    IN /\ n > MaxGroupsPerPacket =>
             /\ c.result = "ValueError"
             /\ UNCHANGED << inUse, pending, nextIdx, gapQ, writes, wire >>
       /\ (n \in 1..MaxGroupsPerPacket /\ (whenConnected => transport # 0)) =>
             /\ c.result = "sleep"
             /\ Len(gapQ') = Len(gapQ) + 1
             /\ gapQ'[Len(gapQ')].sid = c.sid
             /\ gapQ'[Len(gapQ')].tr = transport

\* what the calls have written: nothing before the sleep(0.1) is over, then
\* the one packet with one SAL per address, in the order of the addresses
OnePacketPerCall ==
    \A i \in 1..Len(calls) :
        LET c == calls[i]
        IN /\ c.result # "returned" => c.written = << >>
           /\ c.result = "returned" =>
                 /\ c.written = << PointToMultipointPacket(c.op, c.group_addr) >>
                 /\ \A j \in 1..Len(c.group_addr) :
                       c.written[1][j] = [sal |-> c.op, group_address |-> c.group_addr[j]]
                 /\ writes[c.sid] = 1

\* C13 as stated: a call with more than 9 addresses raises and changes nothing;
\* a call with 1..9 addresses sends exactly one packet with one SAL per address.
BatchingAsStated ==
    [][LightingCallStep => BatchingRule(FALSE) /\ OnePacketPerCall']_vars

\* C13: a call with more than 9 addresses raises and changes nothing; a call
\* with 1..9 addresses made while the transport is connected sends exactly one
\* packet with one SAL per address.
BatchingWhileConnected ==
    [][(LightingCallStep => BatchingRule(TRUE)) /\ OnePacketPerCall']_vars

\* a call with 10 addresses has been refused and a call with 9 has written its packet
BatchesRefusedAndSent ==
    /\ \E i \in 1..Len(calls) :
          Len(calls[i].group_addr) > MaxGroupsPerPacket /\ calls[i].result = "ValueError"
    /\ \E i \in 1..Len(calls) :
          /\ Len(calls[i].group_addr) = MaxGroupsPerPacket
          /\ calls[i].result = "returned"
          /\ Len(calls[i].written[1]) = MaxGroupsPerPacket

\* the step in which a _send acquires its confirmation code
AcquireStep == nextSid' = nextSid + 1

ReapStep(k) == rl[k].pc = "sleep" /\ rl[k].rem = 0 /\ rl'[k] # rl[k]

\* the codes in use that the timeout leaves in the registry
NotTimedOut == SelectSeq(inUse, LAMBDA e : ~TimedOut(e))

\* the codes that leave the registry in this step although they have not timed
\* out and their packet has not used up its attempts
ForcedOut ==
    { NotTimedOut[i].code : i \in { j \in 1..Len(NotTimedOut) :
          /\ ~HasCode(inUse', NotTimedOut[j].code)
          /\ \A m \in 1..Len(ToAbandon(pending)) : ToAbandon(pending)[m] # NotTimedOut[j].code } }

\* C15: a reap that leaves 18 or more of the 20 codes in use force-releases the
\* single oldest code and removes its pending entry; a reap that leaves fewer
\* force-releases none.
ForceReleasesSingleOldest ==
    [][\A k \in Loops : ReapStep(k) =>
          /\ Len(NotTimedOut) * 10 >= NumCodes * 9 =>
                /\ ForcedOut = { CodesByAge(NotTimedOut)[1].code }
                /\ ~HasCode(pending', CodesByAge(NotTimedOut)[1].code)
          /\ Len(NotTimedOut) * 10 < NumCodes * 9 => ForcedOut = {}]_vars


(* ------------------------------------------------------------------ *)
(* The throttler                                                        *)
(* ------------------------------------------------------------------ *)
\* the worker calls a task in this step
DispatchStep == Len(dispatched') = Len(dispatched) + 1

\* C16: whenever the worker calls a task after another one, at least the
\* period has passed since it called the previous one, whether the previous
\* one returned or raised an exception.
MinimumInterval ==
    [][DispatchStep /\ dispatched # << >> => sinceStart = Period]_vars

\* a task was called after one that raised an exception
DispatchedAfterRaise ==
    \E i \in 1..(Len(dispatched) - 1) : dispatched[i].raised


\* the gateway offers tasks to the throttler in this step
OfferStep == sweepCount' # sweepCount \/ commandCount' # commandCount

\* the tasks offered so far
Offered == Len(SweepBlocks) * sweepCount + commandCount

\* the tasks the worker has called, in the order of the calls
DispatchedTasks == [i \in 1..Len(dispatched) |-> dispatched[i].task]

\* C17: the queue never holds more than max_queue_size tasks; every task
\* offered is accepted or dropped in the step that offers it; an offer to a
\* full queue drops the task and leaves the queue as it was, and any offer
\* leaves the tasks already queued where they were; the worker calls the
\* tasks in the order in which they were accepted.
BoundedFifo ==
    [][ /\ Len(queue') <= MaxQueueSize
        /\ Len(accepted') + Len(refused') = Offered'
        /\ OfferStep =>
              /\ IsPrefix(queue, queue')
              /\ dispatched' = dispatched
              /\ Len(queue') - Len(queue) = Len(accepted') - Len(accepted)
              /\ QueueFull(queue) =>
                    /\ queue' = queue
                    /\ accepted' = accepted
                    /\ Len(refused') > Len(refused)
        /\ IsPrefix(DispatchedTasks', accepted')
        /\ cleanupPc' # "returned" => accepted' = DispatchedTasks' \o queue'
      ]_vars

\* a task was dropped by the running throttler because the queue was full,
\* and the worker has called tasks before and after
DroppedWhenFull ==
    /\ \E i \in 1..Len(refused) : refused[i].phase = "none"
    /\ Len(dispatched) >= 2
    /\ queue # << >>


\* C18: once cleanup() has returned the worker has stopped and the queue is
\* empty; from then on no task is called, so none of the tasks that were
\* still queued is ever executed, and every task offered is dropped.
CleanupIsFinal ==
    [][ /\ cleanupPc' = "returned" =>
              /\ worker'.pc = "done"
              /\ queue' = << >>
              /\ \A i \in 1..Len(dispatched') : dispatched'[i].task \notin discarded'
        /\ cleanupPc = "returned" =>
              /\ dispatched' = dispatched
              /\ accepted' = accepted
              /\ OfferStep => Len(refused') > Len(refused)
      ]_vars

\* cleanup() has returned after discarding queued tasks, the worker had
\* called tasks before, and a task offered afterwards was dropped
DroppedAfterCleanup ==
    /\ cleanupPc = "returned"
    /\ discarded # {}
    /\ dispatched # << >>
    /\ \E i \in 1..Len(refused) : refused[i].phase = "returned"


(* ------------------------------------------------------------------ *)
(* Status sweeps                                                        *)
(* ------------------------------------------------------------------ *)
\* the block starts of a sweep as the gateway is to request them
ClaimedBlocks == << 0, 32, 64, 96, 128, 160, 192, 224 >>

\* the block starts of the request_status calls made so far for sweep n
DispatchedBlocks(n) ==
    LET own == SelectSeq(dispatched,
                         LAMBDA d : d.task.fn = "request_status" /\ d.task.arg.sweep = n)
    IN [i \in 1..Len(own) |-> own[i].call.group_addr]

\* the tasks of sweep n that the throttler dropped or discarded
LostOfSweep(n) ==
    { t \in discarded : t.fn = "request_status" /\ t.arg.sweep = n }
    \cup { refused[i].task : i \in { j \in 1..Len(refused) :
              refused[j].task.fn = "request_status" /\ refused[j].task.arg.sweep = n } }

\* the blocks, each of BlockSize groups, tile the groups 0..GroupCount - 1:
\* the first starts at group 0, each starts where the one before it ends,
\* and the last ends at the last group, so that every group is in exactly
\* one block
CoversOnce(blocks) ==
    /\ blocks # << >>
    /\ blocks[1] = 0
    /\ \A i \in 1..(Len(blocks) - 1) : blocks[i + 1] = blocks[i] + BlockSize
    /\ blocks[Len(blocks)] + BlockSize = GroupCount

\* queue_status_requests runs in this step
SweepStep == sweepCount' = sweepCount + 1

\* C19 as stated: every sweep results in 8 dispatched calls, so that no task
\* of a sweep is ever dropped by the throttler or discarded from its queue.
EverySweepDispatched ==
    \A n \in 1..sweepCount : LostOfSweep(n) = {}

\* C19: a sweep offers 8 tasks to the throttler, for the blocks 0, 32, ...,
\* 224 in ascending order; the throttler accepts the first of them for which
\* it has room and drops the rest, and accepts all 8 when it is running and
\* has room for 8; the calls dispatched for a sweep are a prefix of the
\* blocks in ascending order, each at most once; a sweep whose 8 calls have
\* been dispatched covers every group 0..255 exactly once.
SweepCoverage ==
    [][ /\ SweepStep =>
              \E k \in 0..Len(ClaimedBlocks) :
                  /\ Len(accepted') = Len(accepted) + k
                  /\ Len(refused') = Len(refused) + Len(ClaimedBlocks) - k
                  /\ \A i \in 1..k :
                        /\ accepted'[Len(accepted) + i].fn = "request_status"
                        /\ accepted'[Len(accepted) + i].arg.sweep = sweepCount'
                        /\ accepted'[Len(accepted) + i].arg.block = ClaimedBlocks[i]
                  /\ \A i \in (k + 1)..Len(ClaimedBlocks) :
                        /\ refused'[Len(refused) + i - k].task.arg.sweep = sweepCount'
                        /\ refused'[Len(refused) + i - k].task.arg.block = ClaimedBlocks[i]
                  /\ running /\ Len(queue) + Len(ClaimedBlocks) <= MaxQueueSize
                        => k = Len(ClaimedBlocks)
        /\ DispatchStep =>
              \A n \in 1..sweepCount :
                  /\ IsPrefix(DispatchedBlocks(n)', ClaimedBlocks)
                  /\ /\ Len(DispatchedBlocks(n)') = Len(ClaimedBlocks)
                     /\ Len(DispatchedBlocks(n)) < Len(ClaimedBlocks)
                     => CoversOnce(DispatchedBlocks(n)')
      ]_vars

\* the 8 calls of one sweep have been dispatched, and another sweep lost
\* tasks to the full queue of the running throttler
SweepDoneAndSweepCut ==
    /\ \E n \in 1..sweepCount : Len(DispatchedBlocks(n)) = Len(ClaimedBlocks)
    /\ \E i \in 1..Len(refused) :
          /\ refused[i].task.fn = "request_status"
          /\ refused[i].phase = "none"


(* ------------------------------------------------------------------ *)
(* Commands                                                             *)
(* ------------------------------------------------------------------ *)
\* the brightness and the transition of a command as they are to be used
ClaimedBrightness(payload) ==
    IF "brightness" \notin DOMAIN payload THEN 255
    ELSE IF payload.brightness < 0 THEN 0
    ELSE IF payload.brightness > 255 THEN 255
    ELSE payload.brightness

ClaimedTransition(payload) ==
    IF "transition" \notin DOMAIN payload THEN 0
    ELSE IF payload.transition < 0 THEN 0
    ELSE payload.transition

\* the PCI call a command is to make
ClaimedCall(ga, payload) ==
    IF payload.state \in {"ON", "on"}
    THEN IF ClaimedBrightness(payload) = 255 /\ ClaimedTransition(payload) = 0
         THEN [fn |-> "lighting_group_on", group_addr |-> ga]
         ELSE [fn |-> "lighting_group_ramp", group_addr |-> ga,
               duration |-> ClaimedTransition(payload),
               level |-> ClaimedBrightness(payload)]
    ELSE [fn |-> "lighting_group_off", group_addr |-> ga]

\* _handle_message runs in this step
CommandStep == commandCount' = commandCount + 1

TopicRoundTrip ==
    /\ \A i \in 1..Len(parsed) :
          parsed[i].result = [ok |-> TRUE, ga |-> parsed[i].group, aa |-> parsed[i].app]
    /\ Len(parsed) = 2 =>
          LET p == parsed[1]
              q == parsed[2]
          IN << p.kind, p.group, p.app >> # << q.kind, q.group, q.app >>
                => p.topic # q.topic

\* the topic of a group of another application and the topic of the group
\* of the lighting application with the numbers swapped have been parsed
SwappedPairParsed ==
    /\ Len(parsed) = 2
    /\ parsed[1].app # LIGHTING
    /\ parsed[2].app = LIGHTING
    /\ parsed[1].group = LIGHTING
    /\ parsed[2].group = parsed[1].app
    /\ parsed[1].kind # parsed[2].kind


\* the address part of a topic that starts with the prefix: the text up to
\* the next "/", cut at the underscores
AddressParts(topic) ==
    Split(Split(SubSeq(topic, Len(LIGHT_TOPIC_PREFIX) + 1, Len(topic)), "/")[1], Separator)

\* the topics the parser is to reject
MustReject(topic) ==
    \/ ~StartsWith(topic, LIGHT_TOPIC_PREFIX)
    \/ LET parts == AddressParts(topic)
       IN \/ Len(parts) > 2
          \/ \E i \in 1..Len(parts) : ~IntOf(parts[i]).ok
          \/ LET group == IntOf(parts[Len(parts)]).val
             IN group < 1 \/ group > 255

\* C23: the parser raises ValueError for every topic that does not start
\* with the prefix, whose address is not numeric or has more than two parts,
\* or whose group is outside 1..255, and a command on such a topic is not
\* enqueued, so that it causes no PCI call.
ParserRejects ==
    /\ \A i \in 1..Len(parsed) :
          MustReject(parsed[i].topic) => ~parsed[i].result.ok
    /\ \A i \in 1..Len(msgLog) :
          MustReject(msgLog[i].msg.topic) => msgLog[i].outcome # "enqueued"


\* a command message that is not valid: a topic with the set suffix that the
\* parser rejects, a payload that is no JSON, or a JSON object without "state"
InvalidCommand(msg) ==
    /\ EndsWith(msg.topic, TopicSuffix.set)
    /\ \/ ~get_topic_group_address(msg.topic).ok
       \/ ~msg.payload.json
       \/ "state" \notin DOMAIN msg.payload.obj

\* C21: an invalid command message is logged and ignored: nothing is
\* enqueued for it and no exception leaves the handler, and the dispatcher
\* loop stays in its loop for the messages that follow.
InvalidCommandIgnored ==
    /\ \A i \in 1..Len(msgLog) :
          InvalidCommand(msgLog[i].msg) =>
              msgLog[i].outcome \in {"ignored", "invalid topic", "parse error"}
    /\ dispatcher = "running"


(* ------------------------------------------------------------------ *)
(* Events of the PCI relayed to MQTT                                    *)
(* ------------------------------------------------------------------ *)
\* the publishes of one kind among the calls of a handler
CallsOfKind(out, kind) ==
    SelectSeq(out, LAMBDA c : c.op = "publish" /\ c.payload.kind = kind)

\* the indices of a report that carry a level
WithLevel(report) ==
    SelectSeq([i \in 1..Len(report) |-> i], LAMBDA i : report[i] # NoLevel)

\* the lighting events a level report stands for, as they are published:
\* 0 is off, 255 is on, any other level is a ramp to it with duration 0
ExpectedStates(r) ==
    LET idx == WithLevel(r.report)
    IN [k \in 1..Len(idx) |->
          Publish(LightTopic("state", r.start + idx[k] - 1, r.app),
                  [kind |-> "state",
                   state |-> IF r.report[idx[k]] = 0 THEN "OFF" ELSE "ON",
                   brightness |-> r.report[idx[k]],
                   transition |-> 0,
                   cbus_source_addr |-> 0])]

\* the config topics of the groups of a report that carry a level and were
\* not published before
ExpectedDiscovery(r) ==
    LET idx == SelectSeq(WithLevel(r.report),
                         LAMBDA i : << r.app, r.start + i - 1 >> \notin r.before)
    IN [k \in 1..Len(idx) |-> LightTopic("config", r.start + idx[k] - 1, r.app)]

\* the place of the first call with a topic among the calls of a handler
FirstCall(out, topic) ==
    CHOOSE i \in 1..Len(out) : out[i].topic = topic /\ \A j \in 1..(i - 1) : out[j].topic # topic

ReportRelayed(r) ==
    /\ CallsOfKind(r.out, "state") = ExpectedStates(r)
    /\ LET configs == CallsOfKind(r.out, "light config")
       IN [k \in 1..Len(configs) |-> configs[k].topic] = ExpectedDiscovery(r)
    /\ \A i \in 1..Len(r.report) :
          LET ga == << r.app, r.start + i - 1 >>
          IN /\ r.report[i] # NoLevel /\ ga \notin r.before =>
                   FirstCall(r.out, LightTopic("config", ga[2], ga[1]))
                      < FirstCall(r.out, LightTopic("state", ga[2], ga[1]))
             /\ r.report[i] = NoLevel =>
                   \A j \in 1..Len(r.out) :
                       r.out[j].topic \notin
                           { LightTopic(kind, ga[2], ga[1]) : kind \in TopicKinds }

ReportsReceived == { i \in 1..Len(cbusIn) : cbusIn[i].kind = "report" }

\* C24 as stated: every level report produces its events, whatever the
\* state of the handler.
EveryReportRelayed ==
    \A i \in ReportsReceived : ReportRelayed(cbusIn[i])

\* C24: while the MQTT client is attached and the handler is not closing, a
\* level report produces, in index order, one lighting event for each group
\* start+i whose level is not None (0 off, 255 on, any other level a ramp to
\* it with duration 0), nothing for the entries that are None, and the
\* discovery of each such group not published before, ahead of its state;
\* otherwise the report produces nothing.
ReportRelayedWhileAttached ==
    \A i \in ReportsReceived :
        IF cbusIn[i].relayed THEN ReportRelayed(cbusIn[i])
        ELSE cbusIn[i].out = << >>

\* a report with a None entry and a level that is neither 0 nor 255 for a
\* group not published before has been relayed, and one was dropped
ReportWithGapRelayed ==
    /\ \E i \in ReportsReceived :
          /\ cbusIn[i].relayed
          /\ cbusIn[i].report = << NoLevel, 128 >>
          /\ << cbusIn[i].app, cbusIn[i].start + 1 >> \notin cbusIn[i].before
    /\ \E i \in ReportsReceived : ~cbusIn[i].relayed


\* the zero-padded text of an (application, group) pair: ggg or aaa_ggg
PaddedGA(group_addr, app_addr) ==
    IF app_addr = LIGHTING THEN Dec3(group_addr)
    ELSE Dec3(app_addr) \o << Separator >> \o Dec3(group_addr)

\* the discovery of one labelled group among the calls of a handler
DiscoveredPadded(out, group_addr, app_addr) ==
    /\ \E i \in 1..Len(out) :
          out[i] = Subscribe(LightTopic("set", group_addr, app_addr), 2)
    /\ \E i \in 1..Len(out) :
          /\ out[i].op = "publish" /\ out[i].retain
          /\ out[i].topic = LightTopic("config", group_addr, app_addr)
          /\ out[i].payload.unique_id =
                << "c", "b", "u", "s", "_", "l", "i", "g", "h", "t", "_" >>
                    \o PaddedGA(group_addr, app_addr)
    /\ \E i \in 1..Len(out) :
          /\ out[i].op = "publish" /\ out[i].retain
          /\ out[i].topic = BinSensorTopic("config", group_addr, app_addr)
          /\ out[i].payload.unique_id =
                << "c", "b", "u", "s", "_", "b", "i", "n", "_", "s", "e", "n", "s", "o", "r", "_" >>
                    \o PaddedGA(group_addr, app_addr)

\* C27: entering the gateway publishes, for every labelled (application,
\* group), the retained light config with unique_id cbus_light_<gastr> and
\* the retained binary sensor config with unique_id cbus_bin_sensor_<gastr>,
\* <gastr> zero-padded, and subscribes to the set topic of the group at QoS 2.
LabelledDiscoveryPadded ==
    \A i \in 1..Len(cbusIn) :
        cbusIn[i].kind = "enter" =>
            \A ga \in DOMAIN cbusIn[i].labels :
                DiscoveredPadded(cbusIn[i].out, ga[2], ga[1])


\* the calls made on the broker by one step
StepCalls == SubSeq(mqttOut', Len(mqttOut) + 1, Len(mqttOut'))

\* the (application, group) pairs of the events and of the reports
RelayedGAs == { << ga[1], ga[2] + k >> : ga \in EventGAs, k \in 0..(MaxLevels - 1) }

\* the (application, group) pairs whose light config is among the calls
Announced(out) ==
    { ga \in RelayedGAs :
        \E i \in 1..Len(out) :
            /\ out[i].op = "publish" /\ out[i].payload.kind = "light config"
            /\ out[i].topic = LightTopic("config", ga[2], ga[1]) }

DiscoveryStep ==
    /\ groupDB' = {} \/ groupDB' = groupDB \cup Announced(StepCalls)
    /\ \A ga \in Announced(StepCalls) :
          /\ ga \notin groupDB
          /\ Cardinality({ i \in 1..Len(StepCalls) :
                 StepCalls[i].topic = LightTopic("config", ga[2], ga[1]) }) = 1
    /\ \A ga \in RelayedGAs : \A j \in 1..Len(StepCalls) :
          StepCalls[j].topic = LightTopic("state", ga[2], ga[1]) =>
              \/ ga \in groupDB
              \/ \E i \in 1..(j - 1) :
                    StepCalls[i].topic = LightTopic("config", ga[2], ga[1])

\* C30: the published-GA set is either cleared or grows by exactly the
\* groups whose discovery is published; the discovery of a group is
\* published only while the group is not in the set, once; and a state of
\* a group not in the set is published only after its discovery.
DiscoveryOncePerSession == [][DiscoveryStep]_vars

\* a group was discovered by its first event and not again by its second
SecondEventNotAnnounced ==
    \E i, j \in 1..Len(cbusIn) :
        /\ i < j
        /\ cbusIn[i].kind = "event" /\ cbusIn[j].kind = "event"
        /\ cbusIn[i].event.ga = cbusIn[j].event.ga
        /\ cbusIn[i].event.ga \notin cbusIn[i].before
        /\ cbusIn[i].event.ga \in Announced(cbusIn[i].out)
        /\ cbusIn[j].event.ga \in cbusIn[j].before
        /\ cbusIn[j].out # << >>
        /\ Announced(cbusIn[j].out) = {}


\* C25: with clock-request handling disabled (--no-clock), no clock packet
\* is written in response to a clock request.
NoClockWhenDisabled ==
    \A i \in 1..Len(cbusIn) :
        cbusIn[i].kind = "clock request" /\ ~cbusIn[i].enabled =>
            cbusIn[i].closing \/ writes[cbusIn[i].sid] = 0


\* C26: when establishing the PCI connection raises, _main has logged
\* exactly one critical entry and has run the cleanup of the throttler
\* exactly once when it is left.
ConnectFailureHandled ==
    main.pc = "raised" => main.critical = 1 /\ cleanupPc = "returned"


\* the place of a code in the alphabet, counted from 0
IndexOfCode(c) == CHOOSE i \in 0..(NumCodes - 1) : CodeAt(i) = c

\* the entry a step has added to the codes in use for the send it started
NewEntries == { i \in 1..Len(inUse') : inUse'[i].sid = nextSid }

RoundRobinStep ==
    /\ nextSid' # nextSid =>
          /\ Cardinality(NewEntries) = 1
          /\ \A i \in NewEntries :
                LET c == inUse'[i].code
                    k == (IndexOfCode(c) + NumCodes - nextIdx) % NumCodes
                IN /\ nextIdx' = (IndexOfCode(c) + 1) % NumCodes
                   /\ \A j \in 1..Len(inUse') : inUse'[j].code = c => j = i
                   /\ \A m \in 0..(k - 1) :
                         /\ HasCode(inUse, CodeAt(nextIdx + m))
                         /\ HasCode(inUse', CodeAt(nextIdx + m))
    /\ nextSid' = nextSid =>
          \/ nextIdx' = nextIdx
          \/ nextIdx' = 0 /\ inUse' = << >> /\ pending' = << >>

\* C28: an allocation returns the first code, in cyclic order from the
\* cursor, that is not in use (every code it passes over is in use before
\* and after), and leaves the cursor just past the code it returned; no
\* other step moves the cursor, except the clean-up of the state, which
\* sets it to 0.
RoundRobinAllocation == [][RoundRobinStep]_vars

\* the cursor has wrapped and passed over the first code, still in use, to
\* hand out the second
PassedOverCodeInUse ==
    /\ \E i \in 1..Len(inUse) : inUse[i].code = CodeAt(0) /\ inUse[i].sid = BurstSid(1)
    /\ \E i \in 1..Len(inUse) : inUse[i].code = CodeAt(1) /\ inUse[i].sid = 2
    /\ nextIdx = 2


\* the sends whose code is in use
SidsInUse(iu) == { iu[i].sid : i \in 1..Len(iu) }

\* a step that begins with _check_and_release_timed_out_codes: a pass of the
\* retry loop, or an acquire
ReapedStep == AcquireStep \/ \E k \in Loops : ReapStep(k)

\* a step of the retry loop that counts an attempt or writes a packet again
RetryStep ==
    \/ \E sid \in SendIds : writes[sid] >= 1 /\ writes'[sid] > writes[sid]
    \/ \E i \in 1..Len(pending), j \in 1..Len(pending') :
          /\ pending[i].code = pending'[j].code
          /\ pending'[j].attempts > pending[i].attempts

TimeoutReapStep ==
    /\ ReapedStep =>
          /\ \A i \in 1..Len(inUse) :
                TimedOut(inUse[i]) =>
                    /\ inUse[i].sid \notin SidsInUse(inUse')
                    /\ ~HasCode(pending', inUse[i].code)
          /\ ~HighUsage(NotTimedOut) =>
                \A i \in 1..Len(NotTimedOut) :
                    LET e == NotTimedOut[i]
                        abandoned == \E m \in 1..Len(ToAbandon(pending)) :
                                         ToAbandon(pending)[m] = e.code
                    IN ~abandoned =>
                          /\ \E j \in 1..Len(inUse') : inUse'[j] = e
                          /\ HasCode(pending, e.code) => HasCode(pending', e.code)
                          /\ AcquireStep /\ HasCode(pending, e.code) =>
                                Entry(pending', e.code) = Entry(pending, e.code)
    /\ \A i \in 1..Len(inUse), j \in 1..Len(inUse') :
          inUse[i].sid = inUse'[j].sid =>
              /\ inUse'[j].age >= inUse[i].age
              /\ RetryStep => inUse'[j].age = inUse[i].age

\* C29: a reap releases every code in use whose age exceeds the confirmation
\* timeout and removes its pending entry; unless more than 90% of the codes
\* remain in use, it leaves every other code in use, with its age, and its
\* pending entry, as they were; the age of a code in use never goes back,
\* and a retry leaves it as it is.
TimeoutReap == [][TimeoutReapStep]_vars

\* two sends made after the connection was lost kept their codes; a reap
\* has released the first, which had timed out, and kept the second, whose
\* age is exactly the timeout
ReapedAtTimeout ==
    /\ confCount = 0
    /\ nextSid = 3
    /\ writes[1] = 0 /\ writes[2] = 0
    /\ gapQ = << >>
    /\ nextIdx = 2
    /\ Len(inUse) = 1
    /\ inUse[1].sid = 2
    /\ inUse[1].code = CodeAt(1)
    /\ inUse[1].age = ConfirmationTimeout

(* ------------------------------------------------------------------ *)
(* PCIProtocol.timesync: the loop of one connection, followed without   *)
(* a bound on the number of its iterations                              *)
(* ------------------------------------------------------------------ *)
\* any configured interval, disabled or enabled
InitTimesync ==
    /\ InitSession
    /\ InitExt
    /\ handleClockRequests = TRUE
    /\ timesyncFrequency \in {0, TimesyncFrequency}
    /\ resync = NoResync(ResyncFrequency)

TimesyncFrame ==
    UNCHANGED << conns, inUse, pending, nextIdx, mqttEntered, groupDB, sweeps,
                 gapQ, rl, confQ, confCount, nextSid, writes, confirmed, ticks,
                 resetVars, lightVars, periodicVars, gatewayVars, timesyncFrequency,
                 resync, proxy >>

\* a loop that an error ends
EndsOnError == [pc |-> "ended", rem |-> 0]

\* a loop that takes a cancellation for an error and goes on
CancelIgnored == [pc |-> "pause", rem |-> 1]

\* except CancelledError: break
LoopEnded == [pc |-> "ended", rem |-> 0]

\* except Exception: logger.error(...); await sleep(1)
BackOff == [pc |-> "pause", rem |-> 1]

\* one pass of the while loop up to its first await: clock_datetime() -> _send
\* -> _send_packet, which raises IOError when there is no transport and else
\* sleeps 0.1 s before it writes
TimesyncIteration(k) ==
    /\ ts[k].pc \in {"sleep", "pause"}
    /\ ts[k].rem = 0
    /\ IF TransportDown
       THEN /\ ts' = [ts EXCEPT ![k] = BackOff]
            /\ tsLog' = [tsLog EXCEPT ![k].fails = 1 - @]
       ELSE /\ ts' = [ts EXCEPT ![k] = [pc |-> "gap", rem |-> 0]]
            /\ tsLog' = tsLog
    /\ UNCHANGED << transport, isClosing, mqttApi >>
    /\ TimesyncFrame

\* _send_packet after its sleep: transport.write, then await sleep(frequency)
TimesyncWrite(k) ==
    /\ ts[k].pc = "gap"
    /\ ts' = [ts EXCEPT ![k] = [pc |-> "sleep", rem |-> timesyncFrequency]]
    /\ tsLog' = [tsLog EXCEPT ![k].emit = 1 - @]
    /\ UNCHANGED << transport, isClosing, mqttApi >>
    /\ TimesyncFrame

\* a second of the loop's sleep passes
TimesyncSleep(k) ==
    /\ ts[k].pc \in {"sleep", "pause"}
    /\ ts[k].rem > 0
    /\ ts' = [ts EXCEPT ![k].rem = @ - 1]
    /\ UNCHANGED << transport, isClosing, mqttApi, tsLog >>
    /\ TimesyncFrame

\* task.cancel() reaches the loop at one of its awaits
TimesyncCancel(k) ==
    /\ ts[k].pc \in {"sleep", "gap", "pause"}
    /\ ts' = [ts EXCEPT ![k] = LoopEnded]
    /\ tsLog' = [tsLog EXCEPT ![k].cancelled = TRUE, ![k].at = ts[k].pc]
    /\ UNCHANGED << transport, isClosing, mqttApi >>
    /\ TimesyncFrame

NextTimesync ==
    \/ ConnectionMade
    \/ ConnectionLost
    \/ \E k \in Loops : TimesyncIteration(k)
    \/ \E k \in Loops : TimesyncWrite(k)
    \/ \E k \in Loops : TimesyncSleep(k)
    \/ \E k \in Loops : TimesyncCancel(k)

\* the event loop runs every task that is ready, and time passes
TimesyncFairness ==
    \A k \in Loops :
        /\ WF_vars(TimesyncIteration(k))
        /\ WF_vars(TimesyncWrite(k))
        /\ WF_vars(TimesyncSleep(k))

SpecTimesync == InitTimesync /\ [][NextTimesync]_vars /\ TimesyncFairness

TimesyncRunning(k) == ts[k].pc \in {"sleep", "gap", "pause"}

\* a failed iteration leaves the loop running, in its one-second pause, and
\* the session as it was; a loop ends only by cancellation
TimesyncStep ==
    \A k \in Loops :
        /\ tsLog'[k].fails # tsLog[k].fails =>
              /\ ts'[k] = [pc |-> "pause", rem |-> 1]
              /\ transport' = transport
              /\ isClosing' = isClosing
              /\ conns' = conns
        /\ (TimesyncRunning(k) /\ ~TimesyncRunning(k)') =>
              (~tsLog[k].cancelled /\ tsLog'[k].cancelled)

\* C31: with a timesync interval greater than 0, connection_made starts the
\* loop, and a running loop writes another clock broadcast unless it is
\* cancelled or the transport is gone; a failed iteration neither ends the
\* loop nor changes the session, and only cancellation ends the loop; with
\* interval 0 no loop is started and none ever writes.
TimesyncLoop ==
    /\ [](timesyncFrequency = 0 =>
              \A k \in Loops : ts[k] = NoTimesync /\ tsLog[k] = NoTimesyncLog)
    /\ [](timesyncFrequency > 0 =>
              \A k \in Loops : k <= conns => ts[k] # NoTimesync)
    /\ [][TimesyncStep]_vars
    /\ \A k \in Loops : \A b \in 0..1 :
          (TimesyncRunning(k) /\ tsLog[k].emit = b)
              ~> (tsLog[k].emit # b \/ tsLog[k].cancelled \/ TransportDown)

\* the loop of the first connection failed an iteration after the connection
\* was lost, and has written a clock broadcast to the second connection
EmittedAfterFailure ==
    /\ timesyncFrequency > 0
    /\ conns = 2
    /\ transport = 2
    /\ tsLog[1].fails = 1
    /\ tsLog[1].emit = 0
    /\ ts[1] = [pc |-> "sleep", rem |-> timesyncFrequency]
    /\ ~tsLog[1].cancelled

(* ------------------------------------------------------------------ *)
(* Sends that overlap a loss of the connection, a release or a retry    *)
(* ------------------------------------------------------------------ *)
\* a call of _send whose _send_packet raises IOError: no sleep is started
FailedSendStep == AcquireStep /\ TransportDown /\ gapQ' = gapQ

\* C34: a _send that fails because the transport is not connected leaves
\* the confirmation codes in use as they were before the call.
FailedSendReleasesCode == [][FailedSendStep => inUse' = inUse]_vars

\* The cursor wrapped.  The state NumCodes sends into a connection, all made
\* within the first second: the first RacePending sends are written and still
\* pending, every later one has been confirmed, and the cursor is back at
\* the first code of the alphabet.
RacePending == 3
RaceSid(i) == MaxSends + i

InitRace ==
    /\ transport = 1
    /\ conns = 1
    /\ inUse = [i \in 1..RacePending |->
                   [code |-> CodeAt(i - 1), age |-> 0, sid |-> RaceSid(i)]]
    /\ pending = [i \in 1..RacePending |->
                     [code |-> CodeAt(i - 1), data |-> RaceSid(i), attempts |-> 1, age |-> 0]]
    /\ nextIdx = 0
    /\ isClosing = FALSE
    /\ mqttApi = FALSE
    /\ mqttEntered = FALSE
    /\ groupDB = {}
    /\ sweeps = 0
    /\ gapQ = << >>
    /\ rl = [k \in Loops |->
                IF k = 1
                THEN [pc |-> "sleep", rem |-> RetryInterval, toRetry |-> << >>, iterAge |-> 0]
                ELSE NoLoop]
    /\ ts = [k \in Loops |->
                IF k = 1 THEN [pc |-> "sleep", rem |-> TimesyncFrequency] ELSE NoTimesync]
    /\ confQ = << >>
    /\ confCount = 0
    /\ nextSid = 1
    /\ writes = [d \in SendIds |-> IF d \in { RaceSid(i) : i \in 1..NumCodes } THEN 1 ELSE 0]
    /\ confirmed = { RaceSid(i) : i \in (RacePending + 1)..NumCodes }
    /\ ticks = 0
    /\ InitExt
    /\ DefaultOptions

\* the PCI confirms the last of the pending packets
NextRace ==
    \/ NextProtocol
    \/ OnConfirmation(CodeAt(RacePending - 1), TRUE)

SpecRace == InitRace /\ [][NextRace]_vars

\* the retry loop resumes after a sleep(0.1): it writes the packet it slept
\* for and goes on with the next packet it selected
RetryResumeStep == gapQ # << >> /\ gapQ[1].kind = "retry" /\ writes' # writes

\* C35: a retry changes the pending entry of a code only by counting an
\* attempt for the packet the entry holds: it never replaces the bytes of an
\* entry by those of another packet.
RetryKeepsNewerEntry ==
    [][RetryResumeStep =>
          \A c \in CodeSet :
              (HasCode(pending, c) /\ HasCode(pending', c)) =>
                  Entry(pending', c).data = Entry(pending, c).data]_vars

\* C36: every code with a pending entry is a code in use.
PendingCodesInUse ==
    \A i \in 1..Len(pending) : HasCode(inUse, pending[i].code)

\* C37: once the connection is lost, nothing is written for a send or a
\* retry that was started on it.
NoWriteAfterLoss ==
    [][\A d \in SendIds :
          writes'[d] # writes[d] => gapQ[1].tr = transport]_vars

(* ------------------------------------------------------------------ *)
(* MqttClient.switchLight: a command from the broker, from the call on  *)
(* the PCI session to the state it publishes                            *)
(* ------------------------------------------------------------------ *)
\* the payloads of the commands: on, off, a ramp, a ramp to level 0
CommandPayloads ==
    { [state |-> "ON"], [state |-> "OFF"],
      [state |-> "ON", brightness |-> 128, transition |-> 4],
      [state |-> "ON", brightness |-> 0] }

CommandFrame ==
    UNCHANGED << transport, conns, isClosing, mqttApi, mqttEntered, sweeps, rl, ts,
                 confQ, confCount, confirmed, ticks, resetVars, periodicVars,
                 parsed, dispatcher, msgLog, handleClockRequests, main, cbusIn,
                 taskVars >>

\* switchLight up to the first suspension of the call it awaits:
\* userdata.lighting_group_on/off/ramp -> _send -> _send_packet, which raises
\* IOError or starts its sleep(0.1)
CommandSwitchLight(ga, payload) ==
    /\ mqttEntered
    /\ Len(calls) < MaxSends
    /\ StartSend("command", 0, 0)
    /\ calls' = Append(calls, [args |-> SwitchLightArgs(ga[2], payload),
                               app_addr |-> ga[1],
                               call |-> SwitchLight_Call(SwitchLightArgs(ga[2], payload)),
                               sid |-> nextSid,
                               result |-> IF TransportDown THEN "IOError" ELSE "sleep",
                               published |-> << >>])
    /\ UNCHANGED << writes, groupDB, mqttOut >>
    /\ CommandFrame

\* self.lighting_group_on/off/ramp(None, ...) of the MQTT client, as
\* switchLight calls it after the await
CommandPublish(st, c) ==
    IF c.call.fn = "lighting_group_on"
    THEN lighting_group_on(st, 0, c.args.group_addr, c.app_addr)
    ELSE IF c.call.fn = "lighting_group_off"
    THEN lighting_group_off(st, 0, c.args.group_addr, c.app_addr)
    ELSE lighting_group_ramp(st, 0, c.args.group_addr, c.app_addr,
                             c.args.transition, c.args.brightness)

\* the awaited call resumes (write, pending entry) and returns; switchLight
\* goes on to publish the state
CommandResume ==
    /\ gapQ # << >>
    /\ gapQ[1].kind = "command"
    /\ LET e == gapQ[1]
           i == CHOOSE j \in 1..Len(calls) : calls[j].sid = e.sid
           st == CommandPublish(Client, calls[i])
       IN /\ writes' = Written(e)
          /\ pending' = InsertPending(pending, e)
          /\ gapQ' = Tail(gapQ)
          /\ mqttOut' = st.out
          /\ groupDB' = st.db
          /\ calls' = [calls EXCEPT ![i].result = "returned",
                                    ![i].published = NewCalls(st)]
    /\ UNCHANGED << inUse, nextIdx, nextSid >>
    /\ CommandFrame

NextCommand ==
    \/ ConnectionMade
    \/ ConnectionLost
    \/ \E labels \in LabelMaps : GatewayEnter(labels)
    \/ \E ga \in EventGAs, payload \in CommandPayloads : CommandSwitchLight(ga, payload)
    \/ CommandResume

SpecCommand == Init /\ [][NextCommand]_vars

\* the state and binary-sensor publishes among the calls made on the broker
IsStatePublish(m) ==
    m.op = "publish" /\ m.payload.kind \in {"state", "sensor state"}
StatePublishesIn(out) == SelectSeq(out, IsStatePublish)

\* C38: a command's state publish and binary-sensor publish are issued only
\* by a step that has written the command's packet, both for the command's
\* group; a command whose send raised has written nothing and publishes
\* nothing, and nothing else publishes a state while no C-Bus event arrives.
PublishAfterWrite ==
    /\ [](\A i \in 1..Len(calls) :
            LET c == calls[i]
                sp == StatePublishesIn(c.published)
            IN /\ c.result = "IOError" => (c.published = << >> /\ writes[c.sid] = 0)
               /\ c.result = "sleep" => (c.published = << >> /\ writes[c.sid] = 0)
               /\ c.result = "returned" =>
                     /\ writes[c.sid] = 1
                     /\ Len(sp) = 2
                     /\ sp[1].topic = LightTopic("state", c.args.group_addr, c.app_addr)
                     /\ sp[2].topic = BinSensorTopic("state", c.args.group_addr, c.app_addr)
                     /\ sp[1].retain /\ sp[2].retain)
    /\ [][Len(StatePublishesIn(mqttOut')) # Len(StatePublishesIn(mqttOut)) =>
            \E i \in 1..Len(calls) :
                /\ writes[calls[i].sid] = 0
                /\ writes'[calls[i].sid] = 1
                /\ calls'[i].published = SubSeq(mqttOut', Len(mqttOut) + 1, Len(mqttOut'))]_vars

\* one command failed with IOError after the connection was lost and
\* published nothing; an earlier one was written and its state published
CommandFailedAndCommandPublished ==
    /\ Len(calls) = 2
    /\ calls[1].result = "returned"
    /\ calls[1].published # << >>
    /\ calls[2].result = "IOError"
    /\ transport = 0
    /\ Len(StatePublishesIn(mqttOut)) = 2

(* ------------------------------------------------------------------ *)
(* MqttClient.__aenter__ with the label map as CBusHandler keeps it:    *)
(* application -> (name, group -> label), or the default {56: {}}       *)
(* ------------------------------------------------------------------ *)
\* labels if labels is not None else {56: {}}: the value of the one
\* application is an empty dict, which unpacks to no element
DefaultLabels == [a \in {LIGHTING} |-> << >>]

\* label maps read from a project file: (application name, group -> label)
ProjectLabels ==
    { [a \in d |-> << "Lighting", [g \in {1} |-> Hall] >>] : d \in {{LIGHTING}, {48, LIGHTING}} }

AppLabelMaps == {DefaultLabels} \cup ProjectLabels

\* "for app_addr, (_, labels) in ...": the value must have exactly two elements
Unpacks(v) == Len(v) = 2

\* the label a value has for a group, and its groups
GroupLabels(v) == IF Len(v) >= 2 THEN v[2] ELSE << >>

\* "for group_addr in labels.keys(): self.publish_light(...)"
RECURSIVE PublishGroups(_, _, _, _)
PublishGroups(st, app_addr, labels, todo) ==
    IF todo = {} THEN st
    ELSE LET g == CHOOSE x \in todo : \A y \in todo : x <= y
         IN PublishGroups(PublishLight(st, g, app_addr, labels[g]), app_addr, labels, todo \ {g})

\* the loop of publish_all_lights over the applications, up to its end or
\* to the ValueError of a value that does not unpack
RECURSIVE PublishApps(_, _, _)
PublishApps(st, app_labels, todo) ==
    IF todo = {} THEN [st |-> st, raised |-> FALSE]
    ELSE LET a == CHOOSE x \in todo : \A y \in todo : x <= y
         IN IF ~Unpacks(app_labels[a])
            THEN [st |-> st, raised |-> TRUE]
            ELSE PublishApps(PublishGroups(st, a, GroupLabels(app_labels[a]),
                                           DOMAIN GroupLabels(app_labels[a])),
                             app_labels, todo \ {a})

\* MqttClient.__aenter__ from "self._userdata.mqtt_api = self" on:
\* publish_all_lights, then the status sweep unless publish_all_lights raised
AEnter(app_labels) ==
    /\ ~mqttEntered
    /\ conns >= 1
    /\ mqttEntered' = TRUE
    /\ mqttApi' = TRUE
    /\ LET meta == [Client EXCEPT !.out = @ \o
                       << Publish(MetaTopic \o TopicSuffix.config,
                                  [kind |-> "meta config", name |-> "cmqttd",
                                   unique_id |-> "cmqttd"]) >>]
           r == PublishApps(meta, app_labels, DOMAIN app_labels)
       IN /\ mqttOut' = r.st.out
          /\ groupDB' = r.st.db
          /\ sweeps' = IF r.raised THEN sweeps ELSE sweeps + 1
          /\ cbusIn' = Append(cbusIn, [kind |-> "enter", labels |-> app_labels,
                                       before |-> groupDB, out |-> NewCalls(r.st),
                                       raised |-> r.raised,
                                       swept |-> ~r.raised])
    /\ UNCHANGED << transport, conns, inUse, pending, nextIdx, isClosing,
                    gapQ, rl, ts, confQ, confCount, nextSid, writes, confirmed, ticks,
                    parsed, dispatcher, msgLog, handleClockRequests, main,
                    otherThanGateway >>

NextEnter ==
    \/ ConnectionMade
    \/ ConnectionLost
    \/ \E app_labels \in AppLabelMaps : AEnter(app_labels)
    \/ \E e \in LightingEvents : LightingEvent(e)

SpecEnter == Init /\ [][NextEnter]_vars

\* C40: entering the gateway with the default label map publishes the
\* meta-device config and no discovery config of a group, enqueues a status
\* sweep, and raises nothing.
DefaultEnterSucceeds ==
    \A i \in 1..Len(cbusIn) :
        (cbusIn[i].kind = "enter" /\ cbusIn[i].labels = DefaultLabels) =>
            /\ ~cbusIn[i].raised
            /\ cbusIn[i].swept
            /\ Len(cbusIn[i].out) = 1
            /\ cbusIn[i].out[1].payload.kind = "meta config"

(* ------------------------------------------------------------------ *)
(* MqttClient.start_periodic_resync (cmqttd.py): the status-resync loop *)
(* ------------------------------------------------------------------ *)
\* the --status-resync options: negative, disabled, enabled
ResyncFrequencies == {0 - 1, 0, ResyncFrequency}
\* "await asyncio.sleep(30)" after an error
ResyncErrorPause == 30

InitResync ==
    /\ InitSession
    /\ InitExt
    /\ handleClockRequests = TRUE
    /\ timesyncFrequency = TimesyncFrequency
    /\ resync \in { NoResync(f) : f \in ResyncFrequencies }

ResyncFrame ==
    UNCHANGED << transport, conns, inUse, pending, nextIdx, gapQ, rl, ts, confQ,
                 confCount, nextSid, writes, confirmed, ticks,
                 resetVars, lightVars, periodicVars, gatewayVars,
                 timesyncFrequency, tsLog, proxy >>

\* start_periodic_resync: nothing if the interval is not positive, else the
\* task, which starts with "await asyncio.sleep(resync_frequency)"
StartPeriodicResync(r) ==
    IF r.frequency <= 0 THEN r
    ELSE [r EXCEPT !.pc = "sleep", !.rem = r.frequency]

\* MqttClient.on_connect: mqtt_api, groupDB, publish_all_lights, the first
\* status sweep, start_periodic_resync
OnConnect ==
    /\ ~mqttEntered
    /\ conns >= 1
    /\ mqttEntered' = TRUE
    /\ mqttApi' = TRUE
    /\ groupDB' = PublishAllLights({})
    /\ sweeps' = sweeps + 1
    /\ resync' = StartPeriodicResync(resync)
    /\ UNCHANGED isClosing
    /\ ResyncFrame

\* a loop that never leaves at its test
NeverExits == FALSE

\* "if userdata._is_closing or not userdata.mqtt_api: break"
ResyncExits == isClosing \/ ~mqttApi

\* the sleep of the interval is over: the test, then the sweep of every
\* supported application, or an exception on the way to it
ResyncWake(raises) ==
    /\ resync.pc = "sleep"
    /\ resync.rem = 0
    /\ IF ResyncExits
       THEN /\ ~raises
            /\ resync' = [resync EXCEPT !.pc = "ended"]
            /\ sweeps' = sweeps
       ELSE IF raises
       THEN /\ resync' = [resync EXCEPT !.pc = "pause", !.rem = ResyncErrorPause,
                                        !.fails = 1 - @]
            /\ sweeps' = sweeps
       ELSE /\ resync.runs < MaxResyncs
            /\ resync' = [resync EXCEPT !.pc = "sleep", !.rem = resync.frequency,
                                        !.runs = @ + 1]
            /\ sweeps' = sweeps + 1
    /\ UNCHANGED << isClosing, mqttApi, mqttEntered, groupDB >>
    /\ ResyncFrame

\* the pause after an error is over: back to the top of the loop
ResyncRetry ==
    /\ resync.pc = "pause"
    /\ resync.rem = 0
    /\ resync' = [resync EXCEPT !.pc = "sleep", !.rem = resync.frequency]
    /\ UNCHANGED << isClosing, mqttApi, mqttEntered, groupDB, sweeps >>
    /\ ResyncFrame

\* a second of the loop's sleep passes
ResyncTick ==
    /\ resync.pc \in {"sleep", "pause"}
    /\ resync.rem > 0
    /\ resync' = [resync EXCEPT !.rem = @ - 1]
    /\ UNCHANGED << isClosing, mqttApi, mqttEntered, groupDB, sweeps >>
    /\ ResyncFrame

\* task.cancel() reaches the loop in one of its sleeps
ResyncCancel ==
    /\ resync.pc \in {"sleep", "pause"}
    /\ resync' = [resync EXCEPT !.pc = "ended", !.cancelled = TRUE, !.at = resync.pc]
    /\ UNCHANGED << isClosing, mqttApi, mqttEntered, groupDB, sweeps >>
    /\ ResyncFrame

NextResync ==
    \/ ConnectionMade
    \/ ConnectionLost
    \/ OnConnect
    \/ \E raises \in BOOLEAN : ResyncWake(raises)
    \/ ResyncRetry
    \/ ResyncTick
    \/ ResyncCancel

\* the event loop runs the task when its sleep is over, and time passes
ResyncFairness ==
    /\ WF_vars(\E raises \in BOOLEAN : ResyncWake(raises))
    /\ WF_vars(ResyncRetry)
    /\ WF_vars(ResyncTick)

SpecResync == InitResync /\ [][NextResync]_vars /\ ResyncFairness

ResyncRunning == resync.pc \in {"sleep", "pause"}

\* what a step of the loop may do
ResyncStep ==
    /\ resync'.runs # resync.runs =>
          /\ resync.pc = "sleep" /\ resync.rem = 0
          /\ ~isClosing /\ mqttApi
          /\ resync'.runs = resync.runs + 1
          /\ sweeps' = sweeps + 1
          /\ resync'.pc = "sleep" /\ resync'.rem = resync.frequency
    /\ (ResyncRunning /\ resync.rem = 0 /\ resync.pc = "sleep"
          /\ (isClosing \/ ~mqttApi) /\ resync' # resync) =>
          /\ resync'.pc = "ended"
          /\ sweeps' = sweeps
    /\ resync'.fails # resync.fails =>
          /\ resync'.pc = "pause" /\ resync'.rem = ResyncErrorPause
          /\ sweeps' = sweeps
    /\ (resync.pc = "pause" /\ resync'.pc # "pause") =>
          \/ resync'.cancelled
          \/ resync.rem = 0 /\ resync'.pc = "sleep" /\ resync'.rem = resync.frequency
    /\ (mqttEntered /\ sweeps' # sweeps /\ conns' = conns) => resync'.runs # resync.runs

RetryLoopFrame ==
    UNCHANGED << transport, conns, inUse, pending, nextIdx, isClosing, mqttApi,
                 mqttEntered, groupDB, sweeps, gapQ, ts, confQ, confCount,
                 nextSid, writes, confirmed, ticks, ext >>

\* task.cancel() has been called for every task: a task that is run again is
\* run with CancelledError raised at the await it stands at
CancelRequested == main.pc = "gather"

\* the retry loop after "await sleep(self._retry_interval)": a pass with
\* nothing to resend, a pass that resends (to _send_packet's sleep), or a pass
\* that raises (except Exception: await sleep(1))
RetryLoopWake(k, outcome) ==
    /\ ~CancelRequested
    /\ rl[k].pc = "sleep"
    /\ rl[k].rem = 0
    /\ \/ outcome = "idle" /\ rl' = [rl EXCEPT ![k].rem = RetryInterval]
       \/ outcome = "resend" /\ ~TransportDown /\ rl' = [rl EXCEPT ![k].pc = "gap"]
       \/ outcome = "raise" /\ rl' = [rl EXCEPT ![k].pc = "pause", ![k].rem = 1]
    /\ RetryLoopFrame

\* _send_packet of the resend has written, or the pause after an error is
\* over: the top of the loop, "await sleep(self._retry_interval)"
RetryLoopAgain(k) ==
    /\ ~CancelRequested
    /\ rl[k].pc = "gap" \/ (rl[k].pc = "pause" /\ rl[k].rem = 0)
    /\ rl' = [rl EXCEPT ![k].pc = "sleep", ![k].rem = RetryInterval]
    /\ RetryLoopFrame

\* a second of the loop's sleep passes
RetryLoopSleep(k) ==
    /\ ~CancelRequested
    /\ rl[k].pc \in {"sleep", "pause"}
    /\ rl[k].rem > 0
    /\ rl' = [rl EXCEPT ![k].rem = @ - 1]
    /\ RetryLoopFrame

\* CancelledError at an await of the try block: "except CancelledError:
\* break"; at the sleep of the except clause: it leaves the coroutine
RetryLoopCancel(k) ==
    /\ CancelRequested
    /\ rl[k].pc \in {"sleep", "gap", "pause"}
    /\ rl' = [rl EXCEPT ![k].pc = "ended", ![k].rem = 0]
    /\ RetryLoopFrame

\* the MQTT client connects while _main waits
ShutdownOnConnect ==
    /\ main.pc = "waiting"
    /\ OnConnect

\* the finally clause after throttler.cleanup() has returned: disconnect,
\* "for task in tasks: task.cancel()", up to "await asyncio.gather(*tasks)"
MainCancelTasks ==
    /\ main.pc = "cleanup"
    /\ cleanupPc = "returned"
    /\ main' = [main EXCEPT !.pc = "gather"]
    /\ MainFrame
    /\ UNCHANGED << sessionVars, periodicVars >>

\* the tasks that other than _main are left
TasksRunning ==
    \/ worker.pc # "done"
    \/ \E k \in Loops : rl[k].pc \notin {"none", "ended"}
    \/ \E k \in Loops : ts[k].pc \notin {"none", "ended"}
    \/ resync.pc \notin {"none", "ended"}

\* gather returns when every task is done: 'Cleanup complete', _main returns
MainGathered ==
    /\ main.pc = "gather"
    /\ ~TasksRunning
    /\ main' = [main EXCEPT !.pc = "returned"]
    /\ MainFrame
    /\ UNCHANGED << sessionVars, periodicVars >>

RetryOutcomes == {"idle", "resend", "raise"}

NextShutdown ==
    \/ MainConnect(FALSE)
    \/ MainConnectionMade
    \/ MainAwait
    \/ ShutdownOnConnect
    \/ MainConnectionLost
    \/ MainWake(FALSE)
    \/ MainFinally
    \/ MainCancelTasks
    \/ MainGathered
    \/ WorkerLoop
    \/ WorkerExit
    \/ CleanupReturn
    \/ PeriodicTick
    \/ \E k \in Loops : \E o \in RetryOutcomes : RetryLoopWake(k, o)
    \/ \E k \in Loops : RetryLoopAgain(k)
    \/ \E k \in Loops : RetryLoopSleep(k)
    \/ \E k \in Loops : RetryLoopCancel(k)
    \/ \E k \in Loops : ~CancelRequested /\ TimesyncIteration(k)
    \/ \E k \in Loops : ~CancelRequested /\ TimesyncWrite(k)
    \/ \E k \in Loops : ~CancelRequested /\ TimesyncSleep(k)
    \/ \E k \in Loops : CancelRequested /\ TimesyncCancel(k)
    \/ \E raises \in BOOLEAN : ~CancelRequested /\ ResyncWake(raises)
    \/ ~CancelRequested /\ ResyncRetry
    \/ ~CancelRequested /\ ResyncTick
    \/ CancelRequested /\ ResyncCancel

\* the event loop runs _main and every task that is ready, and time passes
ShutdownFairness ==
    /\ WF_vars(MainFinally)
    /\ WF_vars(MainCancelTasks)
    /\ WF_vars(MainGathered)
    /\ WF_vars(WorkerLoop)
    /\ WF_vars(WorkerExit)
    /\ WF_vars(CleanupReturn)
    /\ WF_vars(PeriodicTick)
    /\ \A k \in Loops : WF_vars(RetryLoopCancel(k))
    /\ \A k \in Loops : WF_vars(CancelRequested /\ TimesyncCancel(k))
    /\ WF_vars(CancelRequested /\ ResyncCancel)

SpecShutdown == Init /\ [][NextShutdown]_vars /\ ShutdownFairness

\* C33: once the connection to the PCI is lost and _main has left its wait,
\* the shutdown completes, and when it has completed the throttler worker, the
\* retry loop, the timesync loop and the resync loop have all ended: no task
\* other than _main is left.  From the call of cancel() on, a loop takes no
\* further step but its last, wherever it stood, its back-off sleep included.
ShutdownEndsTasks ==
    /\ [](main.pc = "returned" => ~TasksRunning)
    /\ [][CancelRequested =>
            /\ \A k \in Loops : rl'[k] # rl[k] => rl'[k].pc = "ended"
            /\ \A k \in Loops : ts'[k] # ts[k] => ts'[k].pc = "ended"
            /\ resync' # resync => resync'.pc = "ended"
            /\ worker' = worker]_vars
    /\ (main.pc = "finally" /\ transport = 0) ~> (main.pc = "returned")

\* the shutdown is over; the timesync loop and the resync loop were cancelled
\* in their back-off sleeps, the retry loop and the worker have ended
CancelledInBackOff ==
    /\ main.pc = "returned"
    /\ tsLog[1].at = "pause"
    /\ resync.at = "pause"
    /\ rl[1].pc = "ended"
    /\ worker.pc = "done"
    /\ isClosing

(* ------------------------------------------------------------------ *)
(* cbus-proxy (proxy.py): CBusProxy.start, connect_to_cni,              *)
(* cni_reader_task, handle_client                                       *)
(* ------------------------------------------------------------------ *)
\* connections the proxy opens to the CNI, clients, packets the CNI sends
MaxLinks == 3
ProxyClients == 1..2
MaxCniPackets == 2

ProxyFrame ==
    UNCHANGED << sessionVars, resetVars, lightVars, periodicVars, gatewayVars,
                 timesyncFrequency, tsLog, resync >>

\* connect_to_cni: asyncio.open_connection returns a reader and a writer and
\* cni_connected is set, or it raises and cni_connected is cleared
ConnectToCni(p, connects) ==
    IF connects
    THEN [p EXCEPT !.cniConnected = TRUE, !.link = @ + 1]
    ELSE [p EXCEPT !.cniConnected = FALSE]

\* "self.cni_task = asyncio.create_task(self.cni_reader_task())"
CreateReaderTask(p) == [p EXCEPT !.cniTask = "running"]

\* start: running, connect_to_cni, the reader task if connected, the server
ProxyStart(connects) ==
    /\ ~proxy.running
    /\ proxy.link = 0
    /\ LET p == ConnectToCni([proxy EXCEPT !.running = TRUE], connects)
       IN proxy' = IF p.cniConnected THEN CreateReaderTask(p) ELSE p
    /\ ProxyFrame

\* handle_client up to forward_client_to_cni: the client is registered; if
\* the CNI is not connected, connect_to_cni, and "if self.cni_connected and
\* not self.cni_task" the reader task
HandleClient(c, connects) ==
    /\ proxy.running
    /\ c \notin proxy.clients
    /\ LET reg == [proxy EXCEPT !.clients = @ \cup {c}]
       IN IF reg.cniConnected
          THEN /\ connects
               /\ proxy' = reg
          ELSE /\ connects => proxy.link < MaxLinks
               /\ LET p == ConnectToCni(reg, connects)
                  IN proxy' = IF p.cniConnected /\ p.cniTask = "none"
                              THEN CreateReaderTask(p)
                              ELSE p
    /\ ProxyFrame

\* forward_client_to_cni reads b'' from the client: handle_client's finally
ClientLeaves(c) ==
    /\ c \in proxy.clients
    /\ proxy' = [proxy EXCEPT !.clients = @ \ {c}]
    /\ ProxyFrame

\* the CNI sends a packet on the open connection.  cni_reader_task, if it
\* runs, reads it from self.cni_reader and broadcasts it to every client
CniSends ==
    /\ proxy.cniConnected
    /\ Len(proxy.received) < MaxCniPackets
    /\ proxy' = [proxy EXCEPT !.received =
                    Append(@, [link |-> proxy.link,
                               clients |-> proxy.clients,
                               to |-> IF proxy.cniTask = "running"
                                      THEN proxy.clients ELSE {}])]
    /\ ProxyFrame

\* the CNI closes the connection: read returns b'', 'CNI connection closed',
\* break, and the finally clause clears cni_connected and closes the writer;
\* the task is done and self.cni_task still refers to it
CniCloses ==
    /\ proxy.cniConnected
    /\ proxy.cniTask = "running"
    /\ proxy' = [proxy EXCEPT !.cniConnected = FALSE, !.cniTask = "done"]
    /\ ProxyFrame

NextProxy ==
    \/ \E connects \in BOOLEAN : ProxyStart(connects)
    \/ \E c \in ProxyClients : \E connects \in BOOLEAN : HandleClient(c, connects)
    \/ \E c \in ProxyClients : ClientLeaves(c)
    \/ CniSends
    \/ CniCloses

SpecProxy == Init /\ [][NextProxy]_vars

\* C39: whenever the proxy is connected to the CNI a reader task runs, and
\* every packet the CNI sends on a connection, the first or a later one, is
\* broadcast to all the clients connected at the time.
ReaderFollowsReconnect ==
    /\ proxy.cniConnected => proxy.cniTask = "running"
    /\ \A i \in 1..Len(proxy.received) :
            proxy.received[i].to = proxy.received[i].clients

====
